---- MODULE Spec2Model ----
\* Model of the orchestration core:
\*   src/docker/tools/.config/scripts/tools/orchestrator/orchestrator.py
\*   src/docker/tools/.config/scripts/tools/orchestrator/config.py
\*   src/docker/tools/.config/scripts/tools/orchestrator/executors/file_ops.py
\*   src/docker/tools/.config/scripts/tools/orchestrator/executors/docker.py
\*   src/docker/tools/.config/scripts/tools/orchestrator/executors/redis_ops.py
\*   src/docker/tools/.config/scripts/tools/orchestrator/executors/search.py
\* SubagentOrchestrator.execute_batch and _execute_task, running on the asyncio
\* event loop, with the executors' execute coroutines as the environment.
EXTENDS Naturals, Integers, Sequences, FiniteSets, TLC

\* ------------------------------------------------------------------ bounds
\* Longest task list handed to execute_batch.
MaxTasks == 3
\* max_parallel_agents of the profiles that define it.
ProfileParallel == 2

\* ------------------------------------------------------------------ types
\* Task ids the caller assigns (not necessarily unique within a batch).
IDs == {"a", "b"}

\* Task kinds: UPSERT has an executor registered by create_orchestrator,
\* RESEARCH is a reserved kind with no executor.
Kinds == {"UPSERT", "RESEARCH"}

\* Dependency lists a task may declare.
DepLists == {<<>>, <<"a">>, <<"a", "b">>}

\* Payloads: one the executor's validate_task accepts, one it rejects.
Payloads == {"valid", "invalid"}

\* TaskStatus
TaskStatus == {"PENDING", "RUNNING", "COMPLETED", "FAILED", "TIMEOUT", "CANCELLED"}

\* The absent value of a dict lookup / an unregistered executor.
None == "None"

\* The empty dict.
EmptyMap == [id \in {} |-> None]

\* The configuration path names no file.
ConfigFileAbsent == [exists |-> FALSE, parses |-> FALSE, content |-> EmptyMap]

\* max_parallel_agents when the profile does not define it.
DefaultMaxParallel == 8

\* TaskResult(task_id, task_type, status, error=...)
TaskResult(task_id, task_type, status, error) ==
    [task_id |-> task_id, task_type |-> task_type, status |-> status, error |-> error]

\* SubagentTask(task_id, task_type, payload, dependencies=...)
SubagentTask(task_id, task_type, payload, dependencies) ==
    [task_id |-> task_id, task_type |-> task_type, payload |-> payload,
     dependencies |-> dependencies]

\* Exception classes an executor's execute may raise: TimeoutError, one of the
\* classes _execute_task catches (OSError, ValueError, RuntimeError), and any
\* other Exception (KeyError, TypeError, AttributeError, ...).
ExcClasses == {"TimeoutError", "ValueError", "KeyError"}

\* Statuses of the TaskResults the executors construct and return.
ReturnedStatuses == {"COMPLETED", "FAILED"}

VARIABLES
    executors,       \* self.executors: kind -> executor or None
    profile_config,  \* self.profile_config: key -> value
    results,         \* self.results: task_id -> TaskResult
    tasks,           \* the argument of execute_batch
    pc,              \* position of execute_batch
    i,               \* offset of the current wave in independent_tasks (1-based)
    k,               \* index of the current dependent task (1-based)
    slot,            \* the coroutines of the current gather / the awaited _execute_task
    out,             \* the local list `results` of execute_batch
    exec_log,        \* per task (in dispatch order): what its executor's execute did
    report,          \* the dict generate_report returned last (None before)
    registrations, \* the register_executor calls made so far, in order
    cached_config, \* SubagentConfig._config: the cached configuration ({} before a load)
    config_file, \* the file at the configuration path
    loaded, \* the outcome of the last SubagentConfig.load call (None before)
    fan, \* the fan-out execute call under way: its locals, futures and outcome
    store, \* the file system: target -> content (Absent when there is no file)
    item_calls, \* the per-item upsert/downsert calls made so far, each with its position and report
    docker, \* the run of DockerExecutor.execute and its subprocess
    made, \* the construction of a SubagentTask and its look-up in the registry
    redis, \* the run of RedisUpsertExecutor.execute and the database
    sync, \* the run of RegistrySyncExecutor.execute
    search, \* the run of ParallelSearchExecutor.execute
    later_batches, \* execute_batch calls made on the orchestrator after the first
    task_queue, \* self.task_queue: the tasks submit has put
    submitted  \* the last submit call: its task and what it returned or raised

\* The state execute_batch neither reads nor writes.
aux == <<report, registrations, cached_config, config_file, loaded, fan, store, item_calls, docker, made, redis, sync, search, later_batches, task_queue, submitted>>

vars == <<executors, profile_config, results, tasks, pc, i, k, slot, out, exec_log, aux>>

\* ------------------------------------------------------------------ helpers
Min(x, y) == IF x <= y THEN x ELSE y

\* All sequences over S of length 0..n.
SeqsUpTo(S, n) == UNION {[1..m -> S] : m \in 0..n}

\* ------------------------------------------------------------------ execute_batch
\* max_parallel = self.profile_config.get("max_parallel_agents", 8)
max_parallel ==
    IF "max_parallel_agents" \in DOMAIN profile_config
    THEN profile_config["max_parallel_agents"]
    ELSE DefaultMaxParallel

IsIndependent(t) == t.dependencies = <<>>
IsDependent(t) == t.dependencies # <<>>

\* independent_tasks = [t for t in tasks if not t.dependencies]
independent_tasks == SelectSeq(tasks, IsIndependent)

\* dependent_tasks = [t for t in tasks if t.dependencies]
dependent_tasks == SelectSeq(tasks, IsDependent)

\* The order in which execute_batch handles the tasks.
DispatchOrder == independent_tasks \o dependent_tasks

\* Variant: the slice takes one task more than max_parallel.
batch_off_by_one ==
    SubSeq(independent_tasks, i, Min(i + max_parallel, Len(independent_tasks)))

\* batch = independent_tasks[i:i + max_parallel]
batch ==
    SubSeq(independent_tasks, i, Min(i + max_parallel - 1, Len(independent_tasks)))

\* self.results.get(dep_id, TaskResult("", TaskType.VALIDATION, TaskStatus.PENDING))
ResultsGet(dep_id) ==
    IF dep_id \in DOMAIN results
    THEN results[dep_id]
    ELSE TaskResult("", "VALIDATION", "PENDING", None)

\* Variant: any() in place of all().
deps_satisfied_any(task) ==
    \E n \in 1..Len(task.dependencies) :
        ResultsGet(task.dependencies[n]).status = "COMPLETED"

\* deps_satisfied = all(... .status == TaskStatus.COMPLETED for dep_id in task.dependencies)
deps_satisfied(task) ==
    \A n \in 1..Len(task.dependencies) :
        ResultsGet(task.dependencies[n]).status = "COMPLETED"

\* Variant: the synthesized Result names the first task of the wave (batch[0]
\* in place of batch[j]).
GatherExceptionResult_first(task) ==
    TaskResult(batch[1].task_id, batch[1].task_type, "FAILED", "exception_text")

\* The Result synthesized for an exception gather returned (lines 99-104).
GatherExceptionResult(task) ==
    TaskResult(task.task_id, task.task_type, "FAILED", "exception_text")

\* The Result synthesized for unmet dependencies (lines 126-131).
CancelledResult(task) ==
    TaskResult(task.task_id, task.task_type, "CANCELLED", "deps_not_satisfied")

\* ------------------------------------------------------------------ _execute_task
\* Variant: the lookup self.executors[task.task_type] raises and the task ends
\* as any other failed one.
NoExecutorResult_generic(task) ==
    TaskResult(task.task_id, task.task_type, "FAILED", "exception_text")

\* The Result for a kind without executor (lines 139-145).
NoExecutorResult(task) ==
    TaskResult(task.task_id, task.task_type, "FAILED", "no_executor")

\* Variant: a timeout is reported as a cancellation.
TimeoutResult_cancelled(task) ==
    TaskResult(task.task_id, task.task_type, "CANCELLED", "timed_out_after")

\* except TimeoutError (lines 152-159).
TimeoutResult(task) ==
    TaskResult(task.task_id, task.task_type, "TIMEOUT", "timed_out_after")

\* except (OSError, ValueError, RuntimeError) (lines 160-167).
CaughtResult(task) ==
    TaskResult(task.task_id, task.task_type, "FAILED", "exception_text")

\* The exception classes the second except clause of _execute_task names.
CaughtClasses == {"ValueError"}

\* What the executors return: every executor echoes task_id and task_type.
ExecutorResult(task, status) ==
    TaskResult(task.task_id, task.task_type, status,
               IF status = "COMPLETED" THEN None ELSE "operational")

\* A coroutine of _execute_task: st is its position, res the value it settled with.
Coroutine(st, res) == [st |-> st, res |-> res]

NotStarted == Coroutine("notstarted", None)
Awaiting == Coroutine("awaiting", None)
Blocking == Coroutine("blocking", None)
Overdue == Coroutine("overdue", None)
Returned(res) == Coroutine("result", res)
Raised(exc) == Coroutine("exception", exc)

IsSettled(c) == c.st \in {"result", "exception"}
IsRunning(c) == c.st \in {"awaiting", "blocking", "overdue"}

\* The event loop runs one coroutine at a time: an execute that does not await
\* holds the loop until it returns or raises.
LoopFree == \A j \in 1..Len(slot) : slot[j].st \notin {"blocking", "overdue"}

\* What _execute_task does with an exception of class exc escaping execute:
\* a Result for the two except clauses, the exception itself otherwise.
OnException(task, exc) ==
    IF exc = "TimeoutError" THEN Returned(TimeoutResult(task))
    ELSE IF exc \in CaughtClasses THEN Returned(CaughtResult(task))
    ELSE Raised(exc)


\* The task a coroutine of the current phase runs, and its place in DispatchOrder.
CurrentTask(j) == IF pc = "gather" THEN batch[j] ELSE dependent_tasks[k]
Pos(j) == IF pc = "gather" THEN i + j - 1 ELSE Len(independent_tasks) + k

\* Variant: an id that has a Result keeps it.
Put_keep_first(map, task_id, result) ==
    IF task_id \in DOMAIN map THEN map
    ELSE [id \in DOMAIN map \cup {task_id} |-> IF id = task_id THEN result ELSE map[id]]

\* self.results[task_id] = result
Put(map, task_id, result) ==
    [id \in DOMAIN map \cup {task_id} |-> IF id = task_id THEN result ELSE map[id]]

\* Variant: one exception in the wave fails every entry of the wave (gather
\* without per-task capture).
task_result_wave_fails(j) ==
    IF \E h \in 1..Len(slot) : slot[h].st = "exception"
    THEN GatherExceptionResult(batch[j])
    ELSE slot[j].res

\* for j, batch_result in enumerate(batch_results): the Result of entry j
\* (lines 93-106).
task_result(j) ==
    IF slot[j].st = "exception"
    THEN GatherExceptionResult(batch[j])
    ELSE slot[j].res

\* self.results after the loop of lines 92-108 has handled entries 1..n.
RECURSIVE RecordWave(_)
RecordWave(n) ==
    IF n = 0 THEN results
    ELSE Put(RecordWave(n - 1), batch[n].task_id, task_result(n))

\* The executors create_orchestrator registers (api.py): UPSERT has one, the
\* reserved kind RESEARCH has none.
RegisteredExecutors ==
    [kind \in Kinds |-> IF kind = "UPSERT" THEN "TaskExecutor" ELSE None]

\* The tasks a caller may build: independent ones of either id and kind, and
\* dependent ones of id "b" and either kind (a task may so depend on itself, on
\* an independent task and on an earlier or later dependent one).
TaskPool ==
    {SubagentTask(id, kind, "valid", <<>>) : id \in IDs, kind \in Kinds}
    \cup {SubagentTask("b", kind, "valid", deps) :
              kind \in Kinds, deps \in DepLists \ {<<>>}}

\* The tasks of kind UPSERT a caller may build, with payloads the executor's
\* validate_task accepts or rejects.
PayloadPool ==
    {SubagentTask("a", "UPSERT", payload, deps) :
        payload \in Payloads, deps \in {<<>>, <<"a">>}}

\* executor.validate_task(task): the structural check of task.payload.
validate_task(task) == task.payload = "valid"

\* The profiles an orchestrator may be constructed with: one that defines no
\* max_parallel_agents, and one that defines it (an int >= 1).
Profiles ==
    {EmptyMap, [key \in {"max_parallel_agents"} |-> ProfileParallel]}

\* ------------------------------------------------------------------ SubagentConfig
\* A YAML scalar, and the None an empty document parses to.
Scalar(n) == [scalar |-> n]
YamlNone == [none |-> 0]
IsDict(v) == DOMAIN v \cap {"scalar", "none"} = {}

\* What the file at the configuration path may parse to.
ConfigContents ==
    {YamlNone,
     EmptyMap,
     [profiles |-> EmptyMap],
     [performance_targets |-> Scalar(1)],
     [performance_targets |-> [max_parallel_agents |-> Scalar(4)]],
     [performance_targets |-> [timeout_seconds |-> Scalar(10)]],
     [performance_targets |-> [max_parallel_agents |-> Scalar(4),
                               timeout_seconds |-> Scalar(10)]],
     [performance_targets |-> [max_parallel_agents |-> Scalar(4),
                               timeout_seconds |-> Scalar(10)],
      profiles |-> EmptyMap]}

\* The file: absent, present but not YAML, or present with a content.
ConfigFiles ==
    {ConfigFileAbsent, [exists |-> TRUE, parses |-> FALSE, content |-> EmptyMap]}
    \cup {[exists |-> TRUE, parses |-> TRUE, content |-> c] : c \in ConfigContents}

\* _get_defaults() (the integer and boolean entries).
get_defaults ==
    [performance_targets |->
        [max_parallel_agents |-> Scalar(8), timeout_seconds |-> Scalar(30),
         retry_attempts |-> Scalar(3), batch_size |-> Scalar(10)],
     tracing |-> [enabled |-> Scalar(0)],
     metrics |-> [enabled |-> Scalar(0)]]

required_keys == {"performance_targets"}
required_perf_keys == {"max_parallel_agents", "timeout_seconds"}

\* validate(config): "ok", or the exception it raises.
validate(config) ==
    IF \E key \in required_keys : key \notin DOMAIN config THEN "ValueError"
    ELSE IF ~IsDict(config["performance_targets"]) THEN "ValueError"
    ELSE IF \E key \in required_perf_keys :
                key \notin DOMAIN config["performance_targets"]
    THEN "ValueError"
    ELSE "ok"

\* yaml.safe_load(f) or {}
OrEmpty(v) == IF v = YamlNone \/ v = EmptyMap THEN EmptyMap ELSE v

\* The outcome of a load call: what it returns or raises, and cls._config after it.
LoadOutcome(returned, raised, cache) ==
    [called |-> TRUE, returned |-> returned, raised |-> raised, cache |-> cache,
     source |-> config_file, cache_before |-> cached_config]

\* No load call has been made.
LoadNotCalled ==
    [called |-> FALSE, returned |-> EmptyMap, raised |-> None, cache |-> EmptyMap,
     source |-> ConfigFileAbsent, cache_before |-> EmptyMap]

\* Variant: every call reads the file.
load_rereading ==
    IF ~config_file.exists
    THEN LoadOutcome(get_defaults, None, get_defaults)
    ELSE IF ~config_file.parses
    THEN LoadOutcome(EmptyMap, "YAMLError", cached_config)
    ELSE LET loaded_config == OrEmpty(config_file.content)
         IN IF validate(loaded_config) # "ok"
            THEN LoadOutcome(EmptyMap, validate(loaded_config), cached_config)
            ELSE LoadOutcome(loaded_config, None, loaded_config)

\* SubagentConfig.load(config_path) (lines 113-136); config_file is the file at
\* the path the call names.
load ==
    IF cached_config # EmptyMap
    THEN LoadOutcome(cached_config, None, cached_config)
    ELSE IF ~config_file.exists
    THEN LoadOutcome(get_defaults, None, get_defaults)
    ELSE IF ~config_file.parses
    THEN LoadOutcome(EmptyMap, "YAMLError", cached_config)
    ELSE LET loaded_config == OrEmpty(config_file.content)
         IN IF validate(loaded_config) # "ok"
            THEN LoadOutcome(EmptyMap, validate(loaded_config), cached_config)
            ELSE LoadOutcome(loaded_config, None, loaded_config)

\* ------------------------------------------------------------------ fan-out executors
\* Most items of a fan-out task.
MaxItems == 2

\* Targets the items name, and what the per-item call does in its worker
\* thread: return a result, raise an exception of a class the loop catches
\* (OSError, ValueError, RuntimeError), or raise one of another class
\* (TypeError from json.dumps, ...).
Targets == {"x", "y"}
ItemBehaviours == {"ok", "OSError", "TypeError"}
Items == [target : Targets, does : ItemBehaviours]

\* No fan-out call is under way.
FanIdle ==
    [pc |-> "idle", items |-> <<>>, futures |-> <<>>, yielded |-> {},
     results |-> <<>>, errors |-> <<>>, exc |-> None, timed_out |-> FALSE,
     done_at_timeout |-> {}, status |-> None, error |-> <<>>,
     total |-> 0, succeeded |-> 0, parallel_calls |-> 0]

\* ------------------------------------------------------------------ the file store
\* Text: what a file holds. The data of an upsert item is a str, a dict or
\* something else; the items of a run carry two strs and a dict.
Text(v) == [kind |-> "str", v |-> v]
DataValues ==
    {Text(<<"one">>), Text(<<"two">>), [kind |-> "dict", v |-> <<"D">>]}

\* No file at the target.
Absent == [kind |-> "absent", v |-> <<>>]
EmptyStore == [target \in Targets |-> Absent]

\* ------------------------------------------------------------------ the docker subprocess
\* What the container writes to a stream, chunk by chunk: text the locale
\* encoding decodes, or bytes it does not.
Chunks == {"text", "bytes"}

\* No value of a Result, and the value a finished subprocess gives it
\* (docker.py:114-118).
NoValue == [present |-> FALSE, returncode |-> 0, stdout |-> <<>>, stderr |-> <<>>]
CompletedProcess(returncode, stdout, stderr) ==
    [present |-> TRUE, returncode |-> returncode, stdout |-> stdout, stderr |-> stderr]

\* error=None
NoError == [kind |-> "None", v |-> <<>>]

\* What execute ended with: nothing yet, a TaskResult, or an exception.
NoOutcome == [kind |-> "none", status |-> None, error |-> NoError, value |-> NoValue]

\* DockerExecutor before execute is called.
DockerIdle ==
    [pc |-> "idle", task_id |-> None, timeout_seconds |-> 0, elapsed |-> 0,
     stdout |-> <<>>, stderr |-> <<>>, exited |-> FALSE, returncode |-> 0,
     outcome |-> NoOutcome]

\* ------------------------------------------------------------------ TaskType
\* The names of the TaskType members in definition order; auto() numbers them
\* from 1 (config.py:38-51).
TaskTypeNames ==
    <<"VALIDATION", "DIAGNOSTICS", "BATCH_EDIT", "RESEARCH", "FILE_SEARCH",
      "PARALLEL_GREP", "DOCKER_RUN", "UPSERT", "DOWNSERT", "GPU_INFERENCE",
      "REGISTRY_SYNC">>

\* A str handed in as task_type, and a TaskType member.
Str(name) == [kind |-> "str", name |-> name, value |-> 0]
Member(n) == [kind |-> "TaskType", name |-> TaskTypeNames[n], value |-> n]
TaskType == {Member(n) : n \in 1..Len(TaskTypeNames)}

\* Strs that name no member: other spellings of a name, a member's value, its
\* repr, the empty str.
OtherStrs == {"upsert", "Docker_Run", "8", "TaskType.UPSERT", ""}

\* What a caller may pass as task_type.
TaskTypeArgs ==
    TaskType \cup {Str(TaskTypeNames[n]) : n \in 1..Len(TaskTypeNames)}
             \cup {Str(s) : s \in OtherStrs}

\* No task_type yet.
NoTaskType == [kind |-> "none", name |-> None, value |-> 0]

\* Before SubagentTask(...) is called.
NotConstructed ==
    [pc |-> "idle", task_id |-> None, arg |-> NoTaskType, task_type |-> NoTaskType,
     raised |-> None, executor |-> None]

\* ------------------------------------------------------------------ the Redis keys
\* Keys the items of a Redis upsert name.
RedisKeys == {"k1", "k2"}

\* What a key holds before a batch touches it, and the data of an item.
OldValue == Text(<<"old">>)
ItemData == [kind |-> "dict", v |-> <<"D">>]

\* An item of payload["items"]: its target, data_type, and the nx and xx flags.
RedisUpsertItems ==
    [target : RedisKeys, data_type : {"JSON", "HASH"}, nx : BOOLEAN, xx : BOOLEAN]

\* RedisUpsertExecutor before execute is called, on an empty database.
RedisIdle ==
    [pc |-> "idle", db |-> [key \in RedisKeys |-> Absent], items |-> <<>>,
     use_pipeline |-> FALSE, existence |-> <<>>, results |-> <<>>, log |-> <<>>]

\* ------------------------------------------------------------------ registry sync
\* RegistrySyncExecutor before execute is called.
SyncIdle ==
    [pc |-> "idle", action |-> None, images |-> <<>>, invoked |-> <<>>,
     entries |-> <<>>, status |-> None, raised |-> None]

\* ------------------------------------------------------------------ parallel search
\* ParallelSearchExecutor before execute is called.
SearchIdle ==
    [pc |-> "idle", patterns |-> <<>>, futures |-> <<>>, yielded |-> <<>>,
     results |-> <<>>, errors |-> <<>>, exc |-> None, status |-> None,
     parallel_calls |-> 0]

\* ------------------------------------------------------------------ the task queue
\* No submit call has been made.
SubmitNotCalled ==
    [called |-> FALSE, task |-> SubagentTask(None, None, None, <<>>),
     returned |-> None, raised |-> None]

\* That state as construction leaves it.
AuxIdle ==
    /\ report = None
    /\ registrations = <<>>
    /\ cached_config = EmptyMap
    /\ config_file = ConfigFileAbsent
    /\ loaded = LoadNotCalled
    /\ fan = FanIdle
    /\ store = EmptyStore
    /\ item_calls = <<>>
    /\ docker = DockerIdle
    /\ made = NotConstructed
    /\ redis = RedisIdle
    /\ sync = SyncIdle
    /\ search = SearchIdle
    /\ later_batches = 0
    /\ task_queue = <<>>
    /\ submitted = SubmitNotCalled

\* The state at the first evaluation of the wave loop of execute_batch(tasks).
InitWith(pool) ==
    /\ executors = RegisteredExecutors
    /\ profile_config \in Profiles
    /\ results = EmptyMap
    /\ tasks \in SeqsUpTo(pool, MaxTasks)
    /\ pc = "wave_loop"
    /\ i = 1
    /\ k = 1
    /\ slot = <<>>
    /\ out = <<>>
    /\ exec_log = [p \in 1..Len(tasks) |-> "idle"]
    /\ AuxIdle

Init == InitWith(TaskPool)

\* Lines 85-89: the next wave's coroutines are created and handed to gather.
NextWave ==
    /\ pc = "wave_loop"
    /\ i <= Len(independent_tasks)
    /\ slot' = [j \in 1..Len(batch) |-> NotStarted]
    /\ pc' = "gather"
    /\ UNCHANGED <<aux, executors, profile_config, results, tasks, i, k, out, exec_log>>

\* Variant: the dependent loop is entered while waves are still to run.
EndWaves_unguarded ==
    /\ pc = "wave_loop"
    /\ pc' = "dep_loop"
    /\ UNCHANGED <<aux, executors, profile_config, results, tasks, i, k, slot, out, exec_log>>

\* The loop of line 85 ends: on to the dependent tasks.
EndWaves ==
    /\ pc = "wave_loop"
    /\ i > Len(independent_tasks)
    /\ pc' = "dep_loop"
    /\ UNCHANGED <<aux, executors, profile_config, results, tasks, i, k, slot, out, exec_log>>

\* The event loop runs coroutine j of the wave for the first time (the loop
\* starts the tasks in the order gather created them): _execute_task up to its
\* first suspension (lines 138-151).
StartTask(j) ==
    /\ pc = "gather"
    /\ j \in 1..Len(slot)
    /\ slot[j] = NotStarted
    /\ \A h \in 1..(j - 1) : slot[h] # NotStarted
    /\ LoopFree
    /\ LET task == batch[j] IN
       IF executors[task.task_type] = None
       THEN /\ slot' = [slot EXCEPT ![j] = Returned(NoExecutorResult(task))]
            /\ UNCHANGED exec_log
       ELSE /\ \E c \in {Awaiting, Blocking} : slot' = [slot EXCEPT ![j] = c]
            /\ exec_log' = [exec_log EXCEPT ![Pos(j)] = "running"]
    /\ UNCHANGED <<aux, executors, profile_config, results, tasks, pc, i, k, out>>

\* _execute_task of coroutine j ends with c (a Result returned or an exception
\* raised); what is what its executor did.
Settle(j, c, what) ==
    /\ exec_log' = [exec_log EXCEPT ![Pos(j)] = what]
    /\ IF pc = "gather"
       THEN /\ slot' = [slot EXCEPT ![j] = c]
            /\ UNCHANGED <<results, pc, k, out>>
       ELSE IF c.st = "result"
       THEN \* lines 121-123
            /\ out' = Append(out, c.res)
            /\ results' = Put(results, dependent_tasks[k].task_id, c.res)
            /\ k' = k + 1
            /\ slot' = <<>>
            /\ pc' = "dep_loop"
       ELSE \* the exception leaves the await of line 121 and execute_batch
            /\ pc' = "raised"
            /\ slot' = <<>>
            /\ UNCHANGED <<results, k, out>>
    /\ UNCHANGED <<aux, executors, profile_config, tasks, i>>

\* A coroutine that is suspended runs again only when the loop is free.
CanRun(j) ==
    /\ pc \in {"gather", "dep_exec"}
    /\ j \in 1..Len(slot)
    /\ IsRunning(slot[j])
    /\ (slot[j].st = "awaiting" => LoopFree)

\* executor.execute(task) returns a TaskResult.
ExecuteReturns(j, status) ==
    /\ CanRun(j)
    /\ Settle(j, Returned(ExecutorResult(CurrentTask(j), status)), status)

\* executor.execute(task) raises an exception of class exc.
ExecuteRaises(j, exc) ==
    /\ CanRun(j)
    /\ Settle(j, OnException(CurrentTask(j), exc),
              IF exc = "TimeoutError" THEN "TimeoutError" ELSE "raised")

\* task.timeout_seconds elapses while execute holds the event loop: the timer
\* of wait_for cannot run.
DeadlinePasses(j) ==
    /\ pc \in {"gather", "dep_exec"}
    /\ j \in 1..Len(slot)
    /\ slot[j].st = "blocking"
    /\ slot' = [slot EXCEPT ![j] = Overdue]
    /\ UNCHANGED <<aux, executors, profile_config, results, tasks, pc, i, k, out, exec_log>>

\* task.timeout_seconds elapses while execute is suspended: wait_for cancels it
\* and raises TimeoutError (lines 149-159).
WaitForTimeout(j) ==
    /\ pc \in {"gather", "dep_exec"}
    /\ j \in 1..Len(slot)
    /\ slot[j].st = "awaiting"
    /\ LoopFree
    /\ Settle(j, Returned(TimeoutResult(CurrentTask(j))), "abandoned")

\* gather returns; lines 92-108 record the wave.
CollectWave ==
    /\ pc = "gather"
    /\ \A j \in 1..Len(slot) : IsSettled(slot[j])
    /\ out' = out \o [j \in 1..Len(slot) |-> task_result(j)]
    /\ results' = RecordWave(Len(slot))
    /\ i' = i + max_parallel
    /\ slot' = <<>>
    /\ pc' = "wave_loop"
    /\ UNCHANGED <<aux, executors, profile_config, tasks, k, exec_log>>

\* Lines 111-132: the next dependent task is considered.
ConsiderDependent ==
    /\ pc = "dep_loop"
    /\ k <= Len(dependent_tasks)
    /\ LET task == dependent_tasks[k] IN
       IF deps_satisfied(task)
       THEN IF executors[task.task_type] = None
            THEN /\ out' = Append(out, NoExecutorResult(task))
                 /\ results' = Put(results, task.task_id, NoExecutorResult(task))
                 /\ k' = k + 1
                 /\ UNCHANGED <<pc, slot, exec_log>>
            ELSE /\ \E c \in {Awaiting, Blocking} : slot' = <<c>>
                 /\ pc' = "dep_exec"
                 /\ exec_log' =
                        [exec_log EXCEPT ![Len(independent_tasks) + k] = "running"]
                 /\ UNCHANGED <<results, k, out>>
       ELSE /\ out' = Append(out, CancelledResult(task))
            /\ k' = k + 1
            /\ UNCHANGED <<results, pc, slot, exec_log>>
    /\ UNCHANGED <<aux, executors, profile_config, tasks, i>>

\* Line 134: return results.
Return ==
    /\ pc = "dep_loop"
    /\ k > Len(dependent_tasks)
    /\ pc' = "returned"
    /\ UNCHANGED <<aux, executors, profile_config, results, tasks, i, k, slot, out, exec_log>>

Next ==
    \/ NextWave
    \/ EndWaves
    \/ \E j \in 1..MaxTasks : StartTask(j)
    \/ \E j \in 1..MaxTasks, status \in ReturnedStatuses : ExecuteReturns(j, status)
    \/ \E j \in 1..MaxTasks, exc \in ExcClasses : ExecuteRaises(j, exc)
    \/ \E j \in 1..MaxTasks : DeadlinePasses(j)
    \/ \E j \in 1..MaxTasks : WaitForTimeout(j)
    \/ CollectWave
    \/ ConsiderDependent
    \/ Return

Spec == Init /\ [][Next]_vars

\* execute_batch over tasks whose payloads may be invalid.
InitPayload == InitWith(PayloadPool)
SpecPayload == InitPayload /\ [][Next]_vars

\* ------------------------------------------------------------------ several execute_batch calls
\* Most execute_batch calls made on one orchestrator after the first.
MaxLaterBatches == 1

\* The tasks of the batches: an independent task "a" and a task "b" that
\* depends on it.
LifetimePool ==
    {SubagentTask("a", "UPSERT", "valid", <<>>),
     SubagentTask("b", "UPSERT", "valid", <<"a">>)}

InitLifetime == InitWith(LifetimePool)

\* What a new execute_batch call leaves alone, self.results apart.
lifetime_frame ==
    <<executors, profile_config, report, registrations, cached_config, config_file,
      loaded, fan, store, item_calls, docker, made, redis, sync, search, task_queue, submitted>>

\* Variant: every call starts from an empty results map.
ExecuteBatchAgain_fresh(later) ==
    /\ pc \in {"returned", "raised"}
    /\ later_batches < MaxLaterBatches
    /\ later_batches' = later_batches + 1
    /\ tasks' = later
    /\ results' = EmptyMap
    /\ pc' = "wave_loop"
    /\ i' = 1
    /\ k' = 1
    /\ slot' = <<>>
    /\ out' = <<>>
    /\ exec_log' = [p \in 1..Len(later) |-> "idle"]
    /\ UNCHANGED lifetime_frame

\* execute_batch(later) is called on the orchestrator whose earlier call has
\* ended: lines 74-83 start from fresh locals, self.results is what the earlier
\* calls left (it is assigned in __init__ only, line 49).
ExecuteBatchAgain(later) ==
    /\ pc \in {"returned", "raised"}
    /\ later_batches < MaxLaterBatches
    /\ later_batches' = later_batches + 1
    /\ tasks' = later
    /\ pc' = "wave_loop"
    /\ i' = 1
    /\ k' = 1
    /\ slot' = <<>>
    /\ out' = <<>>
    /\ exec_log' = [p \in 1..Len(later) |-> "idle"]
    /\ UNCHANGED <<lifetime_frame, results>>

NextLifetime ==
    \/ Next
    \/ \E later \in SeqsUpTo(LifetimePool, MaxTasks) : ExecuteBatchAgain(later)

SpecLifetime == InitLifetime /\ [][NextLifetime]_vars

\* ------------------------------------------------------------------ submit
\* Most tasks put on the queue.
MaxQueued == 2

\* The tasks a caller may submit: of a kind with or without an executor, with a
\* payload its validate_task accepts or rejects.
SubmitPool ==
    {SubagentTask(id, kind, payload, <<>>) :
        id \in IDs, kind \in Kinds, payload \in Payloads}

\* What a submit call leaves alone.
submit_frame ==
    <<executors, profile_config, results, tasks, pc, i, k, slot, out, exec_log,
      report, registrations, cached_config, config_file, loaded, fan, store,
      item_calls, docker, made, redis, sync, search, later_batches>>

\* Variant: the task is put on the queue unchecked.
submit_unchecked(task) ==
    [called |-> TRUE, task |-> task, returned |-> task.task_id, raised |-> None]

\* submit(task) (lines 55-70): what it returns or raises.
submit(task) ==
    IF executors[task.task_type] = None
    THEN [called |-> TRUE, task |-> task, returned |-> None, raised |-> "ValueError"]
    ELSE IF ~validate_task(task)
    THEN [called |-> TRUE, task |-> task, returned |-> None, raised |-> "ValueError"]
    ELSE [called |-> TRUE, task |-> task, returned |-> task.task_id, raised |-> None]

\* The batch that runs while tasks are submitted: an independent task and one
\* that depends on it.
SubmitBatch ==
    <<SubagentTask("a", "UPSERT", "valid", <<>>),
      SubagentTask("b", "UPSERT", "valid", <<"a">>)>>

\* execute_batch(SubmitBatch) begins on an orchestrator with an empty queue.
InitSubmit ==
    /\ executors = RegisteredExecutors
    /\ profile_config \in Profiles
    /\ results = EmptyMap
    /\ tasks = SubmitBatch
    /\ pc = "wave_loop"
    /\ i = 1
    /\ k = 1
    /\ slot = <<>>
    /\ out = <<>>
    /\ exec_log = [p \in 1..Len(tasks) |-> "idle"]
    /\ AuxIdle

\* A call of submit(task), at any point where the event loop may run it; the
\* queue is unbounded, so put does not wait.
Submit(task) ==
    /\ Len(task_queue) < MaxQueued
    /\ submitted' = submit(task)
    /\ task_queue' = IF submit(task).raised = None
                     THEN Append(task_queue, task) ELSE task_queue
    /\ UNCHANGED submit_frame

NextSubmit ==
    \/ Next
    \/ \E task \in SubmitPool : Submit(task)

SpecSubmit == InitSubmit /\ [][NextSubmit]_vars

\* ------------------------------------------------------------------ generate_report
\* Most Results recorded before a report is asked for.
MaxRecorded == 2

\* Task ids, durations (execution_time_ms) and fan-out counts (parallel_calls)
\* of the recorded Results.
ReportIDs == {"a", "b", "c"}
Durations == {1, 2}
FanOuts == {0, 3}

\* The statuses of the Results execute_batch writes to self.results.
RecordedStatuses == {"COMPLETED", "FAILED", "TIMEOUT"}

\* TaskResult with the fields generate_report reads.
MeasuredTaskResult(task_id, status, execution_time_ms, parallel_calls) ==
    [task_id |-> task_id, task_type |-> "UPSERT", status |-> status,
     execution_time_ms |-> execution_time_ms, parallel_calls |-> parallel_calls]

MeasuredResults ==
    {MeasuredTaskResult(id, st, ms, calls) :
        id \in ReportIDs, st \in RecordedStatuses, ms \in Durations, calls \in FanOuts}

\* completed = [r for r in self.results.values() if r.status == COMPLETED]
completed == {id \in DOMAIN results : results[id].status = "COMPLETED"}

\* failed = [r for r in self.results.values() if r.status == FAILED]
failed == {id \in DOMAIN results : results[id].status = "FAILED"}

\* sum(r.execution_time_ms for r in the Results of the ids S)
RECURSIVE SumTime(_)
SumTime(S) ==
    IF S = {} THEN 0
    ELSE LET id == CHOOSE x \in S : TRUE
         IN results[id].execution_time_ms + SumTime(S \ {id})

\* sum(r.parallel_calls for r in the Results of the ids S)
RECURSIVE SumParallel(_)
SumParallel(S) ==
    IF S = {} THEN 0
    ELSE LET id == CHOOSE x \in S : TRUE
         IN results[id].parallel_calls + SumParallel(S \ {id})

total_time == SumTime(DOMAIN results)
total_parallel == SumParallel(DOMAIN results)

\* The quotient n / d of true division, kept as the fraction it is.
Ratio(n, d) == [num |-> n, den |-> d]

\* Variant: the rate is taken over the Completed and Failed Results only.
success_rate_of_settled ==
    IF DOMAIN results # {}
    THEN Ratio(Cardinality(completed), Cardinality(completed) + Cardinality(failed))
    ELSE Ratio(0, 1)

\* len(completed) / len(self.results) if self.results else 0
success_rate ==
    IF DOMAIN results # {}
    THEN Ratio(Cardinality(completed), Cardinality(DOMAIN results))
    ELSE Ratio(0, 1)

\* total_parallel / len(self.results) if self.results else 0
parallel_efficiency ==
    IF DOMAIN results # {}
    THEN Ratio(total_parallel, Cardinality(DOMAIN results))
    ELSE Ratio(0, 1)

\* The "summary" of the dict generate_report returns.
generate_report ==
    [total_tasks |-> Cardinality(DOMAIN results),
     completed |-> Cardinality(completed),
     failed |-> Cardinality(failed),
     success_rate |-> success_rate,
     total_execution_time_ms |-> total_time,
     total_parallel_calls |-> total_parallel,
     parallel_efficiency |-> parallel_efficiency]

\* What recording and reporting leave alone.
report_frame == <<executors, profile_config, tasks, i, k, slot, exec_log, registrations, cached_config, config_file, loaded, fan, store, item_calls, docker, made, redis, sync, search, later_batches, task_queue, submitted>>

\* An orchestrator that has run nothing yet.
InitReport ==
    /\ executors = RegisteredExecutors
    /\ profile_config = EmptyMap
    /\ results = EmptyMap
    /\ tasks = <<>>
    /\ pc = "recording"
    /\ i = 1
    /\ k = 1
    /\ slot = <<>>
    /\ out = <<>>
    /\ exec_log = <<>>
    /\ AuxIdle

\* execute_batch settles a task with Result res: results.append(res) and
\* self.results[task_id] = res (lines 107-108, 122-123).
RecordResult(res) ==
    /\ Len(out) < MaxRecorded
    /\ out' = Append(out, res)
    /\ results' = Put(results, res.task_id, res)
    /\ pc' = "recording"
    /\ UNCHANGED <<report_frame, report>>

\* Variant: the report is generated and the results map cleared.
GenerateReport_clearing ==
    /\ report' = generate_report
    /\ pc' = "reported"
    /\ results' = EmptyMap
    /\ UNCHANGED <<report_frame, out>>

\* A call of generate_report.
GenerateReport ==
    /\ report' = generate_report
    /\ pc' = "reported"
    /\ UNCHANGED <<report_frame, results, out>>

NextReport ==
    \/ \E res \in MeasuredResults : RecordResult(res)
    \/ GenerateReport

SpecReport == InitReport /\ [][NextReport]_vars

\* ------------------------------------------------------------------ register_executor
\* Most register_executor calls, and most dispatches, of a run.
MaxRegistrations == 3
MaxDispatches == 2

\* The executor instances a caller may register.
ExecutorObjects == {"E1", "E2"}

\* self.executors = {} (line 47)
NoExecutors == [kind \in Kinds |-> None]

\* Variant: the first registration for a kind is kept.
register_executor_first_wins(task_type, executor) ==
    IF executors[task_type] = None
    THEN [executors EXCEPT ![task_type] = executor]
    ELSE executors

\* self.executors[task_type] = executor
register_executor(task_type, executor) ==
    [executors EXCEPT ![task_type] = executor]

\* What registering and dispatching leave alone.
registry_frame == <<profile_config, results, tasks, pc, i, k, slot, out, report, cached_config, config_file, loaded, fan, store, item_calls, docker, made, redis, sync, search, later_batches, task_queue, submitted>>

\* A fresh orchestrator: no executor registered.
InitRegistry ==
    /\ executors = NoExecutors
    /\ profile_config = EmptyMap
    /\ results = EmptyMap
    /\ tasks = <<>>
    /\ pc = "idle"
    /\ i = 1
    /\ k = 1
    /\ slot = <<>>
    /\ out = <<>>
    /\ exec_log = <<>>
    /\ AuxIdle

\* A call register_executor(task_type, executor).
RegisterExecutor(task_type, executor) ==
    /\ Len(registrations) < MaxRegistrations
    /\ executors' = register_executor(task_type, executor)
    /\ registrations' =
           Append(registrations, [task_type |-> task_type, executor |-> executor])
    /\ UNCHANGED <<registry_frame, exec_log>>

\* _execute_task for a task of kind task_type (lines 138-151): the executor
\* looked up is the one invoked (None: no executor is invoked).
DispatchTask(task_type) ==
    /\ Len(exec_log) < MaxDispatches
    /\ exec_log' = Append(exec_log, [task_type |-> task_type,
                                     executor |-> executors[task_type],
                                     after |-> Len(registrations)])
    /\ UNCHANGED <<registry_frame, executors, registrations>>

NextRegistry ==
    \/ \E task_type \in Kinds, executor \in ExecutorObjects :
           RegisterExecutor(task_type, executor)
    \/ \E task_type \in Kinds : DispatchTask(task_type)

SpecRegistry == InitRegistry /\ [][NextRegistry]_vars

\* ------------------------------------------------------------------ SubagentConfig.load
\* What loading and editing the file leave alone.
config_frame ==
    <<executors, profile_config, results, tasks, pc, i, k, slot, out, exec_log,
      report, registrations, fan, store, item_calls, docker, made, redis, sync, search, later_batches, task_queue, submitted>>

\* A process in which nothing has been loaded yet.
InitConfig ==
    /\ executors = NoExecutors
    /\ profile_config = EmptyMap
    /\ results = EmptyMap
    /\ tasks = <<>>
    /\ pc = "idle"
    /\ i = 1
    /\ k = 1
    /\ slot = <<>>
    /\ out = <<>>
    /\ exec_log = <<>>
    /\ AuxIdle

\* The environment creates, replaces or removes the file at the path.
WriteConfigFile(file) ==
    /\ config_file' = file
    /\ UNCHANGED <<config_frame, cached_config, loaded>>

\* A call SubagentConfig.load().
Load ==
    /\ loaded' = load
    /\ cached_config' = load.cache
    /\ UNCHANGED <<config_frame, config_file>>

NextConfig ==
    \/ \E file \in ConfigFiles : WriteConfigFile(file)
    \/ Load

SpecConfig == InitConfig /\ [][NextConfig]_vars

\* ------------------------------------------------------------------ UpsertExecutor.execute
\* What a fan-out call leaves alone.
fan_frame ==
    <<executors, profile_config, results, tasks, pc, i, k, slot, out, exec_log,
      report, registrations, cached_config, config_file, loaded, store, item_calls, docker, made, redis, sync, search, later_batches, task_queue, submitted>>

\* The classes the loop body catches per item (file_ops.py:74).
ItemCaught == {"OSError"}

\* f"Upsert '{item['target']}' failed: {e}"
ItemError(item) == [target |-> item.target, exc |-> item.does]

InitFanOut ==
    /\ executors = NoExecutors
    /\ profile_config = EmptyMap
    /\ results = EmptyMap
    /\ tasks = <<>>
    /\ pc = "idle"
    /\ i = 1
    /\ k = 1
    /\ slot = <<>>
    /\ out = <<>>
    /\ exec_log = <<>>
    /\ AuxIdle

\* execute(task) is called: every item is submitted to the pool (lines 55-67).
SubmitItems(items) ==
    /\ fan.pc = "idle"
    /\ fan' = [fan EXCEPT !.pc = "as_completed",
                          !.items = items,
                          !.futures = [n \in 1..Len(items) |-> "running"]]
    /\ UNCHANGED fan_frame

\* The worker thread of item n finishes its call.
FutureDone(n) ==
    /\ fan.pc \in {"as_completed", "exit"}
    /\ n \in 1..Len(fan.futures)
    /\ fan.futures[n] = "running"
    /\ fan' = [fan EXCEPT !.futures[n] = "done"]
    /\ UNCHANGED fan_frame

\* as_completed yields the finished future of item n and the loop body runs
\* (lines 69-75): the result is appended, a caught exception becomes an error
\* message, any other exception leaves the loop.
YieldFuture(n) ==
    /\ fan.pc = "as_completed"
    /\ n \in 1..Len(fan.futures)
    /\ fan.futures[n] = "done"
    /\ n \notin fan.yielded
    /\ LET item == fan.items[n] IN
       fan' = IF item.does = "ok"
              THEN [fan EXCEPT !.yielded = @ \cup {n},
                               !.results = Append(@, item.target)]
              ELSE IF item.does \in ItemCaught
              THEN [fan EXCEPT !.yielded = @ \cup {n},
                               !.errors = Append(@, ItemError(item))]
              ELSE [fan EXCEPT !.yielded = @ \cup {n},
                               !.exc = item.does,
                               !.pc = "exit"]
    /\ UNCHANGED fan_frame

\* task.timeout_seconds elapses while as_completed waits for a future that is
\* still running: it raises TimeoutError.
GroupTimeout ==
    /\ fan.pc = "as_completed"
    /\ \E n \in 1..Len(fan.futures) : fan.futures[n] = "running"
    /\ fan' = [fan EXCEPT !.exc = "TimeoutError",
                          !.pc = "exit",
                          !.timed_out = TRUE,
                          !.done_at_timeout =
                              {n \in 1..Len(fan.futures) : fan.futures[n] = "done"}]
    /\ UNCHANGED fan_frame

\* The with block ends on an exception: ThreadPoolExecutor.__exit__ waits for
\* every worker, then the exception leaves execute.
ExitRaises ==
    /\ fan.pc = "exit"
    /\ \A n \in 1..Len(fan.futures) : fan.futures[n] = "done"
    /\ fan' = [fan EXCEPT !.pc = "raised"]
    /\ UNCHANGED fan_frame

\* Every future has been yielded: the TaskResult is built and returned
\* (lines 77-95).
ReturnResult ==
    /\ fan.pc = "as_completed"
    /\ fan.yielded = 1..Len(fan.futures)
    /\ fan' = [fan EXCEPT !.pc = "returned",
                          !.status = IF fan.errors = <<>> THEN "COMPLETED" ELSE "FAILED",
                          !.error = fan.errors,
                          !.total = Len(fan.items),
                          !.succeeded = Len(fan.results),
                          !.parallel_calls = Len(fan.items)]
    /\ UNCHANGED fan_frame

NextFanOut ==
    \/ \E items \in SeqsUpTo(Items, MaxItems) : SubmitItems(items)
    \/ \E n \in 1..MaxItems : FutureDone(n)
    \/ \E n \in 1..MaxItems : YieldFuture(n)
    \/ GroupTimeout
    \/ ExitRaises
    \/ ReturnResult

SpecFanOut == InitFanOut /\ [][NextFanOut]_vars

\* ------------------------------------------------------------------ _default_upsert, _default_downsert
\* Most per-item calls of a run.
MaxCalls == 3

\* The target the per-item calls of a run name (the other targets of the store
\* are left to themselves).
CallTargets == {"x"}

\* What the per-item calls leave alone.
store_frame ==
    <<executors, profile_config, results, tasks, pc, i, k, slot, out, exec_log,
      report, registrations, cached_config, config_file, loaded, fan, docker, made, redis, sync, search, later_batches, task_queue, submitted>>

\* json.dumps(data, indent=2) for a dict, data for a str, str(data) otherwise
\* (file_ops.py:37-42).
Content(data) ==
    IF data.kind = "dict" THEN Text(<<"json.dumps">> \o data.v)
    ELSE IF data.kind = "str" THEN data
    ELSE Text(<<"str">> \o data.v)

\* target_path.exists()
Exists(target) == store[target] # Absent

\* Variant: a target that exists is left as it is.
write_text_if_new(target, content) ==
    IF Exists(target) THEN store ELSE [store EXCEPT ![target] = content]

\* target_path.write_text(content)
write_text(target, content) == [store EXCEPT ![target] = content]

\* A per-item call, submitted to the pool and not yet run (began, seq: how many
\* calls had finished when it checked the target, and its own place among the
\* finished calls).
Submitted(op, target, data) ==
    [op |-> op, target |-> target, data |-> data, pc |-> "submitted",
     existed |-> FALSE, action |-> None, raised |-> None, began |-> 0, seq |-> 0]

\* How many calls have finished.
Finished == Cardinality({c \in 1..Len(item_calls) : item_calls[c].pc = "done"})

InitStore ==
    /\ executors = NoExecutors
    /\ profile_config = EmptyMap
    /\ results = EmptyMap
    /\ tasks = <<>>
    /\ pc = "idle"
    /\ i = 1
    /\ k = 1
    /\ slot = <<>>
    /\ out = <<>>
    /\ exec_log = <<>>
    /\ AuxIdle

\* execute submits a per-item call to the pool (file_ops.py:64-67, 150-152).
SubmitCall(op, target, data) ==
    /\ Len(item_calls) < MaxCalls
    /\ item_calls' = Append(item_calls, Submitted(op, target, data))
    /\ UNCHANGED <<store_frame, store>>

\* existed = target_path.exists() (file_ops.py:35, 124).
CheckExisted(c) ==
    /\ c \in 1..Len(item_calls)
    /\ item_calls[c].pc = "submitted"
    /\ item_calls' = [item_calls EXCEPT ![c].pc = "checked",
                                        ![c].began = Finished,
                                        ![c].existed = Exists(item_calls[c].target)]
    /\ UNCHANGED <<store_frame, store>>

\* The rest of _default_upsert (file_ops.py:37-51): the write and the report.
UpsertWrites(c) ==
    /\ c \in 1..Len(item_calls)
    /\ item_calls[c].pc = "checked"
    /\ item_calls[c].op = "upsert"
    /\ store' = write_text(item_calls[c].target, Content(item_calls[c].data))
    /\ item_calls' =
           [item_calls EXCEPT ![c].pc = "done",
                              ![c].seq = Finished + 1,
                              ![c].action =
                                  IF item_calls[c].existed THEN "updated" ELSE "created"]
    /\ UNCHANGED store_frame

\* The rest of _default_downsert (file_ops.py:126-136): unlink when the target
\* existed (FileNotFoundError when it is gone by now), and the report.
DownsertRemoves(c) ==
    /\ c \in 1..Len(item_calls)
    /\ item_calls[c].pc = "checked"
    /\ item_calls[c].op = "downsert"
    /\ IF item_calls[c].existed /\ ~Exists(item_calls[c].target)
       THEN /\ item_calls' = [item_calls EXCEPT ![c].pc = "done",
                                                ![c].seq = Finished + 1,
                                                ![c].raised = "FileNotFoundError"]
            /\ UNCHANGED store
       ELSE /\ store' = IF item_calls[c].existed
                        THEN [store EXCEPT ![item_calls[c].target] = Absent]
                        ELSE store
            /\ item_calls' =
                   [item_calls EXCEPT ![c].pc = "done",
                                      ![c].seq = Finished + 1,
                                      ![c].action =
                                          IF item_calls[c].existed
                                          THEN "deleted" ELSE "skipped"]
    /\ UNCHANGED store_frame

NextStore ==
    \/ \E target \in CallTargets, data \in DataValues :
           SubmitCall("upsert", target, data)
    \/ \E target \in CallTargets : SubmitCall("downsert", target, Absent)
    \/ \E c \in 1..MaxCalls : CheckExisted(c)
    \/ \E c \in 1..MaxCalls : UpsertWrites(c)
    \/ \E c \in 1..MaxCalls : DownsertRemoves(c)

SpecStore == InitStore /\ [][NextStore]_vars

\* ------------------------------------------------------------------ DockerExecutor.execute
\* Most chunks the container writes to its two streams together.
MaxChunks == 2

\* task.timeout_seconds of the DockerRun tasks, in ticks of the clock.
DockerTimeouts == {1, 2}

\* Exit codes of the docker client: success, a failing command, a killed one.
ReturnCodes == {0, 1, 137}

\* What execute leaves alone.
docker_frame ==
    <<executors, profile_config, results, tasks, pc, i, k, slot, out, exec_log,
      report, registrations, cached_config, config_file, loaded, fan, store,
      item_calls, made, redis, sync, search, later_batches, task_queue, submitted>>

\* text=True: the captured stream decodes unless it holds undecodable bytes.
Decodes(stream) == \A n \in 1..Len(stream) : stream[n] = "text"

\* The TaskResult of lines 107-123.
ExitResult(returncode, stdout, stderr) ==
    [kind |-> "result",
     status |-> IF returncode = 0 THEN "COMPLETED" ELSE "FAILED",
     error |-> IF returncode # 0 THEN Text(stderr) ELSE NoError,
     value |-> CompletedProcess(returncode, stdout, stderr)]

\* The TaskResult of lines 124-130.
DockerTimeoutResult ==
    [kind |-> "result", status |-> "TIMEOUT",
     error |-> Text(<<"Docker container timed out">>), value |-> NoValue]

\* The TaskResult of lines 131-137.
LaunchErrorResult ==
    [kind |-> "result", status |-> "FAILED",
     error |-> Text(<<"str(e)">>), value |-> NoValue]

\* An exception that leaves execute.
Escapes(exc) == [kind |-> "raised", status |-> exc, error |-> NoError, value |-> NoValue]

InitDocker ==
    /\ executors = NoExecutors
    /\ profile_config = EmptyMap
    /\ results = EmptyMap
    /\ tasks = <<>>
    /\ pc = "idle"
    /\ i = 1
    /\ k = 1
    /\ slot = <<>>
    /\ out = <<>>
    /\ exec_log = <<>>
    /\ AuxIdle

\* execute(task) up to the call of subprocess.run (lines 82-100).
DockerExecute(task_id, timeout_seconds) ==
    /\ docker.pc = "idle"
    /\ docker' = [docker EXCEPT !.pc = "called", !.task_id = task_id,
                                !.timeout_seconds = timeout_seconds]
    /\ UNCHANGED docker_frame

\* subprocess.run starts the docker client, or fails to (OSError: no docker
\* binary), which lines 131-137 turn into a Failed Result.
StartProcess(started) ==
    /\ docker.pc = "called"
    /\ docker' = IF started
                 THEN [docker EXCEPT !.pc = "running"]
                 ELSE [docker EXCEPT !.pc = "done", !.outcome = LaunchErrorResult]
    /\ UNCHANGED docker_frame

\* The container writes a chunk to stdout or stderr.
ContainerWrites(stream, chunk) ==
    /\ docker.pc = "running"
    /\ Len(docker.stdout) + Len(docker.stderr) < MaxChunks
    /\ docker' = IF stream = "stdout"
                 THEN [docker EXCEPT !.stdout = Append(@, chunk)]
                 ELSE [docker EXCEPT !.stderr = Append(@, chunk)]
    /\ UNCHANGED docker_frame

\* Time passes while the subprocess runs.
Tick ==
    /\ docker.pc = "running"
    /\ docker.elapsed < docker.timeout_seconds
    /\ docker' = [docker EXCEPT !.elapsed = @ + 1]
    /\ UNCHANGED docker_frame

\* The subprocess exits within the timeout.
ContainerExits(returncode) ==
    /\ docker.pc = "running"
    /\ docker.elapsed < docker.timeout_seconds
    /\ docker' = [docker EXCEPT !.pc = "exited", !.exited = TRUE,
                                !.returncode = returncode]
    /\ UNCHANGED docker_frame

\* The timeout of subprocess.run expires: the subprocess is killed and
\* TimeoutExpired raised, which lines 124-130 turn into a TimedOut Result.
TimeoutExpired ==
    /\ docker.pc = "running"
    /\ docker.elapsed = docker.timeout_seconds
    /\ docker' = [docker EXCEPT !.pc = "done", !.outcome = DockerTimeoutResult]
    /\ UNCHANGED docker_frame

\* subprocess.run decodes the captured streams and returns (lines 101-123), or
\* raises UnicodeDecodeError, a ValueError no except clause of execute names.
RunReturns ==
    /\ docker.pc = "exited"
    /\ docker' =
           [docker EXCEPT
               !.pc = "done",
               !.outcome =
                   IF Decodes(docker.stdout) /\ Decodes(docker.stderr)
                   THEN ExitResult(docker.returncode, docker.stdout, docker.stderr)
                   ELSE Escapes("UnicodeDecodeError")]
    /\ UNCHANGED docker_frame

NextDocker ==
    \/ \E task_id \in IDs, timeout_seconds \in DockerTimeouts :
           DockerExecute(task_id, timeout_seconds)
    \/ \E started \in BOOLEAN : StartProcess(started)
    \/ \E stream \in {"stdout", "stderr"}, chunk \in Chunks :
           ContainerWrites(stream, chunk)
    \/ Tick
    \/ \E returncode \in ReturnCodes : ContainerExits(returncode)
    \/ TimeoutExpired
    \/ RunReturns

SpecDocker == InitDocker /\ [][NextDocker]_vars

\* ------------------------------------------------------------------ SubagentTask.__post_init__
\* What the construction of a task leaves alone.
task_frame ==
    <<executors, profile_config, results, tasks, pc, i, k, slot, out, exec_log,
      report, registrations, cached_config, config_file, loaded, fan, store,
      item_calls, docker, redis, sync, search, later_batches, task_queue, submitted>>

\* The registry of create_full_orchestrator (api.py:167-177), keyed by TaskType
\* members.
FullRegistry ==
    [m \in TaskType |->
        IF m.name \in {"DOCKER_RUN", "GPU_INFERENCE", "UPSERT", "DOWNSERT",
                       "REGISTRY_SYNC"}
        THEN "TaskExecutor" ELSE None]

\* self.executors.get(key): a key that is no member of the dict gives None.
Get(registry, key) == IF key \in DOMAIN registry THEN registry[key] ELSE None

\* Variant: the name is looked up whatever its case.
post_init_any_case(arg) ==
    LET upper == CASE arg.name = "upsert" -> "UPSERT"
                   [] arg.name = "Docker_Run" -> "DOCKER_RUN"
                   [] OTHER -> arg.name
    IN IF arg.kind # "str"
       THEN [task_type |-> arg, raised |-> None]
       ELSE IF \E m \in TaskType : m.name = upper
       THEN [task_type |-> CHOOSE m \in TaskType : m.name = upper, raised |-> None]
       ELSE [task_type |-> NoTaskType, raised |-> "ValueError"]

\* __post_init__ (config.py:90-97): a str is replaced by TaskType[str]; the
\* KeyError of a str that names no member becomes a ValueError.
post_init(arg) ==
    IF arg.kind # "str"
    THEN [task_type |-> arg, raised |-> None]
    ELSE IF \E m \in TaskType : m.name = arg.name
    THEN [task_type |-> CHOOSE m \in TaskType : m.name = arg.name, raised |-> None]
    ELSE [task_type |-> NoTaskType, raised |-> "ValueError"]

InitTask ==
    /\ executors = NoExecutors
    /\ profile_config = EmptyMap
    /\ results = EmptyMap
    /\ tasks = <<>>
    /\ pc = "idle"
    /\ i = 1
    /\ k = 1
    /\ slot = <<>>
    /\ out = <<>>
    /\ exec_log = <<>>
    /\ AuxIdle

\* SubagentTask(task_id=task_id, task_type=arg, ...): the generated __init__
\* stores the arguments.
CallConstructor(task_id, arg) ==
    /\ made.pc = "idle"
    /\ made' = [made EXCEPT !.pc = "init", !.task_id = task_id, !.arg = arg,
                            !.task_type = arg]
    /\ UNCHANGED task_frame

\* __post_init__ runs: the task exists afterwards, or ValueError is raised and
\* no task is returned.
PostInit ==
    /\ made.pc = "init"
    /\ LET r == post_init(made.task_type)
       IN made' = [made EXCEPT !.pc = IF r.raised = None THEN "constructed" ELSE "raised",
                               !.task_type = r.task_type,
                               !.raised = r.raised]
    /\ UNCHANGED task_frame

\* _execute_task looks the task's executor up (orchestrator.py:138).
LookUp ==
    /\ made.pc = "constructed"
    /\ made' = [made EXCEPT !.pc = "looked_up",
                            !.executor = Get(FullRegistry, made.task_type)]
    /\ UNCHANGED task_frame

NextTask ==
    \/ \E task_id \in IDs, arg \in TaskTypeArgs : CallConstructor(task_id, arg)
    \/ PostInit
    \/ LookUp

SpecTask == InitTask /\ [][NextTask]_vars

\* ------------------------------------------------------------------ RedisUpsertExecutor.execute
\* Most items of a Redis upsert task.
MaxRedisItems == 2

\* What a Redis upsert leaves alone.
redis_frame ==
    <<executors, profile_config, results, tasks, pc, i, k, slot, out, exec_log,
      report, registrations, cached_config, config_file, loaded, fan, store,
      item_calls, docker, made, sync, search, later_batches, task_queue, submitted>>

\* _serialize_data (redis_ops.py:208-225) of the item's dict: a mapping of
\* strs for HASH, its JSON text otherwise.
serialize_data(data, data_type) ==
    IF data_type = "HASH"
    THEN [kind |-> "hash", v |-> data.v]
    ELSE Text(<<"json.dumps">> \o data.v)

\* One item's entry in the result list, and what the database held for its key
\* before and after the item was applied.
ItemReport(item, action) == [target |-> item.target, action |-> action]
ItemLog(item, before, after) ==
    [target |-> item.target, nx |-> item.nx, xx |-> item.xx,
     before |-> before, after |-> after]

\* UPSERT_LUA_SCRIPT (redis_ops.py:114-152): whether it leaves the key alone.
LuaSkips(db, item) ==
    \/ item.nx /\ db[item.target] # Absent
    \/ item.xx /\ db[item.target] = Absent

\* _upsert_single (redis_ops.py:227-316) on database db: the database afterwards
\* and the action reported. HASH data is written with DEL and HSET, anything
\* else by the Lua script.
upsert_single(db, item) ==
    IF item.data_type = "HASH"
    THEN [db |-> [db EXCEPT ![item.target] = serialize_data(ItemData, "HASH")],
          action |-> IF db[item.target] # Absent THEN "updated" ELSE "created"]
    ELSE IF LuaSkips(db, item)
    THEN [db |-> db, action |-> "skipped"]
    ELSE [db |-> [db EXCEPT ![item.target] = serialize_data(ItemData, item.data_type)],
          action |-> IF db[item.target] # Absent THEN "updated" ELSE "created"]

\* The second pipeline of _upsert_batch_pipelined (redis_ops.py:337-382): the
\* database after the queued commands of the first n items have run.
RECURSIVE PipelineDb(_, _, _)
PipelineDb(db, items, n) ==
    IF n = 0 THEN db
    ELSE [PipelineDb(db, items, n - 1) EXCEPT
              ![items[n].target] = serialize_data(ItemData, items[n].data_type)]

InitRedis ==
    /\ executors = NoExecutors
    /\ profile_config = EmptyMap
    /\ results = EmptyMap
    /\ tasks = <<>>
    /\ pc = "idle"
    /\ i = 1
    /\ k = 1
    /\ slot = <<>>
    /\ out = <<>>
    /\ exec_log = <<>>
    /\ AuxIdle

\* An earlier batch or another client has set key.
SetBefore(key) ==
    /\ redis.pc = "idle"
    /\ redis.db[key] = Absent
    /\ redis' = [redis EXCEPT !.db[key] = OldValue]
    /\ UNCHANGED redis_frame

\* execute(task) reads the payload and chooses its path (lines 386-393).
RedisExecute(items, use_pipeline) ==
    /\ redis.pc = "idle"
    /\ redis' = [redis EXCEPT
                    !.items = items,
                    !.use_pipeline = use_pipeline,
                    !.pc = IF use_pipeline /\ Len(items) > 1
                           THEN "pipelined" ELSE "single"]
    /\ UNCHANGED redis_frame

\* The first pipeline of _upsert_batch_pipelined: EXISTS for every key
\* (lines 325-334).
PipelineExists ==
    /\ redis.pc = "pipelined"
    /\ redis.existence = <<>>
    /\ redis' = [redis EXCEPT
                    !.existence = [n \in 1..Len(redis.items) |->
                                      redis.db[redis.items[n].target] # Absent]]
    /\ UNCHANGED redis_frame

\* The second pipeline is built and executed, and the reports returned
\* (lines 337-384).
PipelineExecute ==
    /\ redis.pc = "pipelined"
    /\ redis.existence # <<>>
    /\ redis' =
        [redis EXCEPT
            !.db = PipelineDb(redis.db, redis.items, Len(redis.items)),
            !.results = [n \in 1..Len(redis.items) |->
                            ItemReport(redis.items[n],
                                       IF redis.existence[n] THEN "updated" ELSE "created")],
            !.log = [n \in 1..Len(redis.items) |->
                        ItemLog(redis.items[n],
                                PipelineDb(redis.db, redis.items, n - 1)[redis.items[n].target],
                                PipelineDb(redis.db, redis.items, n)[redis.items[n].target])],
            !.pc = "done"]
    /\ UNCHANGED redis_frame

\* The next item of the list comprehension of lines 396-407.
UpsertSingle ==
    /\ redis.pc = "single"
    /\ Len(redis.results) < Len(redis.items)
    /\ LET item == redis.items[Len(redis.results) + 1]
           r == upsert_single(redis.db, item)
       IN redis' = [redis EXCEPT
                       !.db = r.db,
                       !.results = Append(@, ItemReport(item, r.action)),
                       !.log = Append(@, ItemLog(item, redis.db[item.target],
                                                 r.db[item.target]))]
    /\ UNCHANGED redis_frame

\* Every item is done: the TaskResult is returned (lines 409-436).
RedisReturn ==
    /\ redis.pc = "single"
    /\ Len(redis.results) = Len(redis.items)
    /\ redis' = [redis EXCEPT !.pc = "done"]
    /\ UNCHANGED redis_frame

NextRedis ==
    \/ \E key \in RedisKeys : SetBefore(key)
    \/ \E items \in SeqsUpTo(RedisUpsertItems, MaxRedisItems), use_pipeline \in BOOLEAN :
           RedisExecute(items, use_pipeline)
    \/ PipelineExists
    \/ PipelineExecute
    \/ UpsertSingle
    \/ RedisReturn

SpecRedis == InitRedis /\ [][NextRedis]_vars

\* ------------------------------------------------------------------ RegistrySyncExecutor.execute
\* Most images of a sync task.
MaxImages == 2

\* Image names, as their parts between "/": one without a "/", one with.
ImageNames == {<<"app">>, <<"org", "app">>}

\* How a docker pull or push ends: exit code 0; a nonzero exit code
\* (check=True: CalledProcessError); the timeout (TimeoutExpired); no docker
\* binary (OSError, which is no SubprocessError).
Invocations == {"ok", "CalledProcessError", "TimeoutExpired", "OSError"}
SubprocessErrors == {"CalledProcessError", "TimeoutExpired"}

\* What a sync leaves alone.
sync_frame ==
    <<executors, profile_config, results, tasks, pc, i, k, slot, out, exec_log,
      report, registrations, cached_config, config_file, loaded, fan, store,
      item_calls, docker, made, redis, search, later_batches, task_queue, submitted>>

\* f"{self.registry_url}/{image}" if "/" not in image else image
full_image(image) == IF Len(image) = 1 THEN <<"registry_url">> \o image ELSE image

\* The entry appended for an image (lines 294-297, 305-308).
ImageEntry(action, image, how) ==
    [image |-> IF action = "pull" THEN full_image(image) ELSE image,
     status |-> IF how \in SubprocessErrors THEN "failed"
                ELSE IF action = "pull" THEN "pulled" ELSE "pushed"]

InitSync ==
    /\ executors = NoExecutors
    /\ profile_config = EmptyMap
    /\ results = EmptyMap
    /\ tasks = <<>>
    /\ pc = "idle"
    /\ i = 1
    /\ k = 1
    /\ slot = <<>>
    /\ out = <<>>
    /\ exec_log = <<>>
    /\ AuxIdle

\* execute(task) reads action and images (lines 256-264).
SyncExecute(action, images) ==
    /\ sync.pc = "idle"
    /\ sync' = [sync EXCEPT !.pc = "loop", !.action = action, !.images = images]
    /\ UNCHANGED sync_frame

\* The next image of the loop: subprocess.run ends as how; a SubprocessError
\* becomes a failed entry, any other exception leaves execute (lines 283-308).
InvokeDocker(how) ==
    /\ sync.pc = "loop"
    /\ Len(sync.invoked) < Len(sync.images)
    /\ LET image == sync.images[Len(sync.invoked) + 1] IN
       sync' = IF how \in SubprocessErrors \cup {"ok"}
               THEN [sync EXCEPT !.invoked = Append(@, how),
                                 !.entries = Append(@, ImageEntry(sync.action, image, how))]
               ELSE [sync EXCEPT !.invoked = Append(@, how),
                                 !.pc = "raised", !.raised = how]
    /\ UNCHANGED sync_frame

\* The loop is over: the TaskResult is returned (lines 310-319).
SyncReturn ==
    /\ sync.pc = "loop"
    /\ Len(sync.invoked) = Len(sync.images)
    /\ sync' = [sync EXCEPT !.pc = "returned", !.status = "COMPLETED"]
    /\ UNCHANGED sync_frame

NextSync ==
    \/ \E action \in {"pull", "push"}, images \in SeqsUpTo(ImageNames, MaxImages) :
           SyncExecute(action, images)
    \/ \E how \in Invocations : InvokeDocker(how)
    \/ SyncReturn

SpecSync == InitSync /\ [][NextSync]_vars

\* ------------------------------------------------------------------ ParallelSearchExecutor.execute
\* Most patterns of a search task.
MaxPatterns == 2

\* The patterns of a task, each with what search_func does for it.
SearchPatterns == [pattern : {"p", "q"}, does : {"ok", "OSError"}]

\* The partial list search_func returns for a pattern: two hits for "p", one
\* for "q".
Hit(pattern, n) == [pattern |-> pattern, hit |-> n]
search_func(pattern) ==
    IF pattern = "p" THEN <<Hit("p", 1), Hit("p", 2)>> ELSE <<Hit("q", 1)>>

\* What a search leaves alone.
search_frame ==
    <<executors, profile_config, results, tasks, pc, i, k, slot, out, exec_log,
      report, registrations, cached_config, config_file, loaded, fan, store,
      item_calls, docker, made, redis, sync, later_batches, task_queue, submitted>>

\* Variant: the partial list replaces what was collected.
extend_replacing(list, result) == result

\* results.extend(result)
extend(list, result) == list \o result

InitSearch ==
    /\ executors = NoExecutors
    /\ profile_config = EmptyMap
    /\ results = EmptyMap
    /\ tasks = <<>>
    /\ pc = "idle"
    /\ i = 1
    /\ k = 1
    /\ slot = <<>>
    /\ out = <<>>
    /\ exec_log = <<>>
    /\ AuxIdle

\* execute(task): every pattern is submitted to the pool (lines 29-38).
SubmitSearches(patterns) ==
    /\ search.pc = "idle"
    /\ search' = [search EXCEPT !.pc = "as_completed",
                                !.patterns = patterns,
                                !.futures = [n \in 1..Len(patterns) |-> "running"]]
    /\ UNCHANGED search_frame

\* The worker thread of pattern n finishes its search.
SearchDone(n) ==
    /\ search.pc \in {"as_completed", "exit"}
    /\ n \in 1..Len(search.futures)
    /\ search.futures[n] = "running"
    /\ search' = [search EXCEPT !.futures[n] = "done"]
    /\ UNCHANGED search_frame

\* as_completed yields the finished future of pattern n and the loop body runs
\* (lines 40-46).
YieldSearch(n) ==
    /\ search.pc = "as_completed"
    /\ n \in 1..Len(search.futures)
    /\ search.futures[n] = "done"
    /\ \A m \in 1..Len(search.yielded) : search.yielded[m] # n
    /\ search' =
           IF search.patterns[n].does = "ok"
           THEN [search EXCEPT
                    !.yielded = Append(@, n),
                    !.results = extend(@, search_func(search.patterns[n].pattern))]
           ELSE [search EXCEPT
                    !.yielded = Append(@, n),
                    !.errors = Append(@, search.patterns[n].pattern)]
    /\ UNCHANGED search_frame

\* task.timeout_seconds elapses while as_completed waits for a search that is
\* still running: it raises TimeoutError.
SearchTimeout ==
    /\ search.pc = "as_completed"
    /\ \E n \in 1..Len(search.futures) : search.futures[n] = "running"
    /\ search' = [search EXCEPT !.exc = "TimeoutError", !.pc = "exit"]
    /\ UNCHANGED search_frame

\* The with block ends on the exception: the pool waits for every worker, then
\* the exception leaves execute.
SearchRaises ==
    /\ search.pc = "exit"
    /\ \A n \in 1..Len(search.futures) : search.futures[n] = "done"
    /\ search' = [search EXCEPT !.pc = "raised"]
    /\ UNCHANGED search_frame

\* Every future has been yielded: the TaskResult is returned (lines 48-58).
SearchReturn ==
    /\ search.pc = "as_completed"
    /\ Len(search.yielded) = Len(search.futures)
    /\ search' = [search EXCEPT
                     !.pc = "returned",
                     !.status = IF search.errors = <<>> THEN "COMPLETED" ELSE "FAILED",
                     !.parallel_calls = Len(search.patterns)]
    /\ UNCHANGED search_frame

NextSearch ==
    \/ \E patterns \in SeqsUpTo(SearchPatterns, MaxPatterns) : SubmitSearches(patterns)
    \/ \E n \in 1..MaxPatterns : SearchDone(n)
    \/ \E n \in 1..MaxPatterns : YieldSearch(n)
    \/ SearchTimeout
    \/ SearchRaises
    \/ SearchReturn

SpecSearch == InitSearch /\ [][NextSearch]_vars

\* ================================================================== claims
\* What the claims speak of, stated from the input list alone.
NoDeps(t) == Len(t.dependencies) = 0
HasDeps(t) == Len(t.dependencies) > 0
NumIndependent == Len(SelectSeq(tasks, NoDeps))
\* The input reordered: independent tasks first, each part in input order.
Reordered == SelectSeq(tasks, NoDeps) \o SelectSeq(tasks, HasDeps)
\* The bound on concurrency the active profile states.
ProfileBound ==
    IF "max_parallel_agents" \in DOMAIN profile_config
    THEN profile_config["max_parallel_agents"]
    ELSE 8
\* How many entries of a sequence of records carry the task id.
RECURSIVE CountId(_, _)
CountId(seq, id) ==
    IF seq = <<>> THEN 0
    ELSE (IF Head(seq).task_id = id THEN 1 ELSE 0) + CountId(Tail(seq), id)
Terminal == {"COMPLETED", "FAILED", "TIMEOUT", "CANCELLED"}
HasExecutor(t) == executors[t.task_type] # None
\* The executor of the task at place p of the reordered input was invoked.
Invoked(p) == exec_log[p] # "idle"

\* C1: when execute_batch ends it has returned exactly one Result per input
\* task, and the ids of the Results are the ids of the input tasks, counted
\* with multiplicity.
C1_Cardinality ==
    pc \in {"returned", "raised"} =>
        /\ pc = "returned"
        /\ Len(out) = Len(tasks)
        /\ \A id \in IDs : CountId(out, id) = CountId(tasks, id)

\* C2: a dependent task that is considered is dispatched iff every id of its
\* dependencies maps to a recorded Result with status COMPLETED; otherwise it
\* gets a CANCELLED Result (never FAILED), its executor is not invoked and
\* execute_batch does not raise.
C2_DependencyGating ==
    [][(pc = "dep_loop" /\ k <= Len(tasks) - NumIndependent) =>
        LET p == NumIndependent + k
            task == Reordered[p]
            met == \A n \in 1..Len(task.dependencies) :
                      /\ task.dependencies[n] \in DOMAIN results
                      /\ results[task.dependencies[n]].status = "COMPLETED"
        IN IF met
           THEN /\ HasExecutor(task) => exec_log'[p] = "running" /\ pc' = "dep_exec"
                /\ ~HasExecutor(task) =>
                       /\ Len(out') = Len(out) + 1
                       /\ out'[Len(out')].status = "FAILED"
           ELSE /\ Len(out') = Len(out) + 1
                /\ out'[Len(out')].status = "CANCELLED"
                /\ out'[Len(out')].task_id = task.task_id
                /\ exec_log'[p] = "idle"
                /\ pc' = "dep_loop"]_vars

\* C2 witness: a batch has returned in which one dependent task was dispatched
\* to its executor and another one was cancelled.
C2_Witness ==
    /\ pc = "returned"
    /\ \E p, q \in (NumIndependent + 1)..Len(out) :
        /\ Invoked(p)
        /\ out[q].status = "CANCELLED"
        /\ Reordered[q].dependencies = <<"a", "b">>

\* C3: the independent tasks are isolated from each other: once the waves are
\* over every independent task has been dispatched and has its Result,
\* whatever its siblings did, and a task whose own executor returned COMPLETED
\* has a COMPLETED Result.
C3_Isolation ==
    /\ pc \in {"dep_loop", "dep_exec", "returned", "raised"} =>
        /\ Len(out) >= NumIndependent
        /\ \A p \in 1..NumIndependent : HasExecutor(Reordered[p]) => Invoked(p)
    /\ \A p \in 1..Min(Len(out), NumIndependent) :
        exec_log[p] = "COMPLETED" => out[p].status = "COMPLETED"

\* C3 witness: in one wave one executor raised an exception _execute_task does
\* not catch, a second one timed out, and a third one's own execute succeeded
\* and has its COMPLETED Result.
C3_Witness ==
    /\ NumIndependent = 3
    /\ Len(out) >= 3
    /\ ProfileBound >= 3
    /\ \E p, q, r \in 1..3 :
        /\ exec_log[p] = "raised" /\ out[p].status = "FAILED"
        /\ exec_log[q] = "abandoned"
        /\ exec_log[r] = "COMPLETED" /\ out[r].status = "COMPLETED"

\* C4: execute_batch never raises: every exception an executor's execute
\* raises becomes a FAILED Result carrying the exception text.
C4_NothingRaisedPastBatch ==
    /\ pc # "raised"
    /\ \A p \in 1..Len(out) :
        exec_log[p] = "raised" =>
            out[p].status = "FAILED" /\ out[p].error = "exception_text"

\* C5: a task whose payload validate_task rejects never reaches execute, and
\* its Result is FAILED.
C5_InvalidNeverExecuted ==
    \A p \in 1..Len(tasks) :
        (HasExecutor(Reordered[p]) /\ ~validate_task(Reordered[p])) =>
            /\ ~Invoked(p)
            /\ p <= Len(out) => out[p].status \in {"FAILED", "CANCELLED"}

\* C6: no dispatch is still waiting for its executor after task.timeout has
\* elapsed, and a task whose timeout elapsed before its executor settled has
\* a TIMEOUT Result.
C6_TimeoutAtDeadline ==
    /\ \A j \in 1..Len(slot) : slot[j].st # "overdue"
    /\ \A p \in 1..Len(out) : exec_log[p] = "abandoned" => out[p].status = "TIMEOUT"

\* C7: at most max_parallel_agents (8 without a profile value) independent
\* tasks are in flight, and no task of a wave has started while a task of an
\* earlier wave has not settled.
C7_WaveBounding ==
    /\ Cardinality({p \in 1..NumIndependent : exec_log[p] = "running"}) <= ProfileBound
    /\ \A p, q \in 1..NumIndependent :
        ( /\ (q - 1) \div ProfileBound < (p - 1) \div ProfileBound
          /\ Invoked(p) )
        => /\ exec_log[q] # "running"
           /\ q <= Len(out)

\* C7 witness: there are more independent tasks than a wave holds and as many
\* tasks in flight as the profile allows.
C7_Witness ==
    /\ pc = "gather"
    /\ NumIndependent > ProfileBound
    /\ Cardinality({p \in 1..NumIndependent : exec_log[p] = "running"}) = ProfileBound

\* C8: every Result in the list has a terminal status, and a CANCELLED Result
\* belongs to a task whose executor was never invoked.
C8_TerminalAndCancelled ==
    \A p \in 1..Len(out) :
        /\ out[p].status \in Terminal
        /\ out[p].status = "CANCELLED" => ~Invoked(p)

\* C8 witness: a batch has returned with a CANCELLED Result and with the
\* Result of a task whose executor timed out.
C8_Witness ==
    /\ pc = "returned"
    /\ \E p, q \in 1..Len(out) :
        /\ out[p].status = "CANCELLED"
        /\ out[q].status = "TIMEOUT" /\ Invoked(q)

\* C9 (as stated): every task of a kind without executor has a FAILED Result
\* with the 'no executor' error, and no executor is invoked for it.
C9_NoExecutorAlwaysFailed ==
    \A p \in 1..Len(out) :
        ~HasExecutor(Reordered[p]) =>
            /\ out[p].status = "FAILED" /\ out[p].error = "no_executor"
            /\ ~Invoked(p)

\* C9 (amended): a task of a kind without executor that is dispatched (it is
\* independent, or its dependencies are met) has a FAILED Result with the 'no
\* executor' error; one whose dependencies are unmet is CANCELLED; in both
\* cases no executor is invoked for it and execute_batch does not raise
\* because of it.
C9_NoExecutorFailedWhenDispatched ==
    /\ \A p \in 1..Len(tasks) : ~HasExecutor(Reordered[p]) => ~Invoked(p)
    /\ \A p \in 1..Len(out) :
        ~HasExecutor(Reordered[p]) =>
            \/ out[p].status = "FAILED" /\ out[p].error = "no_executor"
            \/ p > NumIndependent /\ out[p].status = "CANCELLED"
    /\ pc = "raised" => HasExecutor(Reordered[Len(out) + 1])

\* C9 witness: a batch has returned with the FAILED Result of a task without
\* executor next to the COMPLETED Result of another task.
C9_Witness ==
    /\ pc = "returned"
    /\ \E p, q \in 1..Len(out) :
        /\ ~HasExecutor(Reordered[p]) /\ out[p].error = "no_executor"
        /\ out[q].status = "COMPLETED"

\* C10: the returned list is the Results of the independent tasks in input
\* order followed by those of the dependent tasks in input order, each
\* carrying the task_id and kind of its task.
C10_ResultOrder ==
    /\ Len(out) <= Len(tasks)
    /\ \A p \in 1..Len(out) :
        /\ out[p].task_id = Reordered[p].task_id
        /\ out[p].task_type = Reordered[p].task_type
    /\ pc = "returned" => Len(out) = Len(tasks)

\* C10 witness: a batch has returned whose input had a dependent task before
\* an independent one of another id and kind.
C10_Witness ==
    /\ pc = "returned"
    /\ Len(tasks) >= 2
    /\ HasDeps(tasks[1])
    /\ NoDeps(tasks[2])
    /\ tasks[1].task_id # tasks[2].task_id
    /\ tasks[1].task_type # tasks[2].task_type

\* C11: the dependent tasks are handled one at a time, in input order, after
\* every wave: while the k-th dependent task is considered or runs, every
\* independent task and the k - 1 dependent tasks before it have their Results,
\* and no executor other than its own is running.
C11_DependentsSequential ==
    /\ pc \in {"dep_loop", "dep_exec"} =>
        /\ Len(out) = NumIndependent + k - 1
        /\ \A q \in 1..Len(tasks) :
            exec_log[q] = "running" => (pc = "dep_exec" /\ q = NumIndependent + k)
    /\ \A p \in (NumIndependent + 1)..Len(tasks) :
        Invoked(p) => Len(out) >= p - 1

\* C11 witness: the second dependent task of a batch runs after the first one
\* ran and settled.
C11_Witness ==
    /\ pc = "dep_exec"
    /\ k = 2
    /\ exec_log[NumIndependent + 1] \notin {"idle", "running"}
    /\ exec_log[NumIndependent + 2] = "running"

\* C12: once execute_batch has returned, the results map holds, under the id of
\* every task whose id is unique in the batch, the Result returned for that
\* task, whatever its status.
C12_ResultsMapHoldsReturned ==
    pc = "returned" =>
        \A p \in 1..Len(out) :
            CountId(tasks, out[p].task_id) = 1 =>
                /\ out[p].task_id \in DOMAIN results
                /\ results[out[p].task_id] = out[p]

\* How many entries of a sequence of Results have the status.
RECURSIVE CountStatus(_, _)
CountStatus(seq, st) ==
    IF seq = <<>> THEN 0
    ELSE (IF Head(seq).status = st THEN 1 ELSE 0) + CountStatus(Tail(seq), st)
\* The Results the map holds, as a set.
Recorded == {results[id] : id \in DOMAIN results}
\* Sum of a field over the recorded Results, one id at a time in a fixed order.
SumDurations ==
    LET At(id) == IF id \in DOMAIN results THEN results[id].execution_time_ms ELSE 0
    IN At("a") + At("b") + At("c")
SumFanOut ==
    LET At(id) == IF id \in DOMAIN results THEN results[id].parallel_calls ELSE 0
    IN At("a") + At("b") + At("c")
\* A fraction equals n / d.
Equals(ratio, n, d) == ratio.num * d = n * ratio.den

\* C13: the report generate_report returns counts the recorded Results
\* (total, Completed, Failed), gives success_rate = completed / total and
\* parallel_efficiency = fan-out / total (0 without Results), and the sums of
\* the durations and fan-out counts; after a batch of c Completed and f Failed
\* uniquely named tasks on a fresh orchestrator success_rate = c / (c + f).
C13_ReportCorrect ==
    pc = "reported" =>
        LET n == Cardinality(DOMAIN results)
            c == Cardinality({r \in Recorded : r.status = "COMPLETED"})
            f == Cardinality({r \in Recorded : r.status = "FAILED"})
        IN /\ report.total_tasks = n
           /\ report.completed = c
           /\ report.failed = f
           /\ report.total_execution_time_ms = SumDurations
           /\ report.total_parallel_calls = SumFanOut
           /\ IF n = 0
              THEN /\ Equals(report.success_rate, 0, 1)
                   /\ Equals(report.parallel_efficiency, 0, 1)
              ELSE /\ Equals(report.success_rate, c, n)
                   /\ Equals(report.parallel_efficiency, SumFanOut, n)
           /\ ( /\ \A p, q \in 1..Len(out) : p # q => out[p].task_id # out[q].task_id
                /\ \A p \in 1..Len(out) : out[p].status \in {"COMPLETED", "FAILED"}
                /\ Len(out) > 0 )
              => Equals(report.success_rate,
                        CountStatus(out, "COMPLETED"),
                        CountStatus(out, "COMPLETED") + CountStatus(out, "FAILED"))

\* C13 witness: a report over one Completed and one TimedOut Result with
\* different durations and fan-out counts.
C13_Witness ==
    /\ pc = "reported"
    /\ report.total_tasks = 2
    /\ report.completed = 1
    /\ report.failed = 0
    /\ report.total_execution_time_ms = 3
    /\ report.total_parallel_calls = 3

\* The executor of the last of the first n register_executor calls that names
\* the kind (None when no call names it).
LastRegistered(n, kind) ==
    LET S == {m \in 1..n : registrations[m].task_type = kind}
    IN IF S = {} THEN None
       ELSE registrations[CHOOSE m \in S : \A h \in S : h <= m].executor

\* C14: after any sequence of register_executor calls the registry holds for
\* each kind at most one executor, the one registered last for it, and every
\* dispatch of a task of kind K invokes the executor registered last for K
\* before the dispatch, never one registered earlier.
C14_LastRegistrationWins ==
    /\ \A kind \in Kinds :
        executors[kind] = LastRegistered(Len(registrations), kind)
    /\ \A d \in 1..Len(exec_log) :
        exec_log[d].executor = LastRegistered(exec_log[d].after, exec_log[d].task_type)

\* C14 witness: a kind got E1, then E2, and a task of that kind was then
\* dispatched to E2.
C14_Witness ==
    \E d \in 1..Len(exec_log), m, n \in 1..Len(registrations) :
        /\ m < n /\ n <= exec_log[d].after
        /\ registrations[m] = [task_type |-> exec_log[d].task_type, executor |-> "E1"]
        /\ registrations[n] = [task_type |-> exec_log[d].task_type, executor |-> "E2"]
        /\ exec_log[d].executor = "E2"

\* The configuration source is present, parses, and has performance_targets
\* with both required keys.
WellFormed(file) ==
    /\ file.exists
    /\ file.parses
    /\ "performance_targets" \in DOMAIN file.content
    /\ {"max_parallel_agents", "timeout_seconds"}
           \subseteq DOMAIN file.content["performance_targets"]

\* C15: load never raises, and a load (with nothing cached) from an absent or
\* malformed source returns the defaults max_parallel_agents = 8,
\* timeout_seconds = 30.
C15_LoadFallsBack ==
    loaded.called =>
        /\ loaded.raised = None
        /\ (loaded.cache_before = EmptyMap /\ ~WellFormed(loaded.source)) =>
               /\ "performance_targets" \in DOMAIN loaded.returned
               /\ loaded.returned["performance_targets"]["max_parallel_agents"] = [scalar |-> 8]
               /\ loaded.returned["performance_targets"]["timeout_seconds"] = [scalar |-> 30]

\* The items of the call under way whose per-item call fails.
FailingItems == {n \in 1..Len(fan.items) : fan.items[n].does # "ok"}

\* C16: an Upsert call that does not time out ends with one Result: Failed iff
\* some item failed, total = N, succeeded = N - k, one error message per
\* failed item naming its target, fan-out count = N; every item is attempted.
C16_FanOutAggregation ==
    (fan.pc \in {"returned", "raised"} /\ ~fan.timed_out) =>
        LET N == Len(fan.items)
            kf == Cardinality(FailingItems)
        IN /\ fan.pc = "returned"
           /\ \A n \in 1..N : fan.futures[n] = "done"
           /\ fan.status = (IF kf > 0 THEN "FAILED" ELSE "COMPLETED")
           /\ fan.total = N
           /\ fan.succeeded = N - kf
           /\ Len(fan.error) = kf
           /\ \A n \in FailingItems :
                \E m \in 1..Len(fan.error) : fan.error[m].target = fan.items[n].target
           /\ fan.parallel_calls = N

\* C17: when the group timeout has elapsed the call still reports: every item
\* that had completed before the timeout is in the report with its outcome.
C17_CompletedItemsRetained ==
    (fan.pc \in {"returned", "raised"} /\ fan.timed_out) =>
        /\ fan.pc = "returned"
        /\ \A n \in fan.done_at_timeout :
            IF fan.items[n].does = "ok"
            THEN \E m \in 1..Len(fan.results) : fan.results[m] = fan.items[n].target
            ELSE \E m \in 1..Len(fan.error) : fan.error[m].target = fan.items[n].target

\* The finished calls on a target, among the first n to finish, that changed
\* or wrote it; the last of them; whether the target exists after them.
EffectiveOn(t, n) ==
    {c \in 1..Len(item_calls) :
        /\ item_calls[c].pc = "done"
        /\ item_calls[c].target = t
        /\ item_calls[c].seq <= n
        /\ item_calls[c].action \in {"created", "updated", "deleted"}}
LastOn(t, n) ==
    CHOOSE c \in EffectiveOn(t, n) :
        \A d \in EffectiveOn(t, n) : item_calls[d].seq <= item_calls[c].seq
ExistsAfter(t, n) ==
    /\ EffectiveOn(t, n) # {}
    /\ item_calls[LastOn(t, n)].op = "upsert"
\* Every finished upsert reports created for a target that did not exist when
\* it began and updated for one that did.
CreatedOrUpdated ==
    \A c \in 1..Len(item_calls) :
        (item_calls[c].pc = "done" /\ item_calls[c].op = "upsert") =>
            /\ item_calls[c].raised = None
            /\ item_calls[c].action =
                   (IF ExistsAfter(item_calls[c].target, item_calls[c].began)
                    THEN "updated" ELSE "created")
\* The text a file holds for an item's data: the data when it is a str, its
\* JSON text when it is a dict, its str() otherwise.
TextOf(data) ==
    IF data.kind = "str" THEN data
    ELSE [kind |-> "str",
          v |-> <<IF data.kind = "dict" THEN "json.dumps" ELSE "str">> \o data.v]

C19_DownsertNeverFails ==
    \A c \in 1..Len(item_calls) :
        (item_calls[c].pc = "done" /\ item_calls[c].op = "downsert") =>
            /\ item_calls[c].raised = None
            /\ item_calls[c].action \in {"deleted", "skipped"}
            /\ (item_calls[c].action = "deleted" /\ item_calls[c].seq = Finished) =>
                   store[item_calls[c].target] = [kind |-> "absent", v |-> <<>>]

\* C20: a DockerRun task's Result is Completed (with value.returncode = 0)
\* exactly when the subprocess exits with code 0, Failed with the captured
\* stderr as error exactly when it exits with another code, TimedOut exactly
\* when the run exceeds the timeout, and execute raises in none of these cases.
C20_ResultFollowsExit ==
    docker.pc = "done" =>
        LET o == docker.outcome
            timed_out == ~docker.exited /\ docker.elapsed = docker.timeout_seconds
                         /\ docker.timeout_seconds > 0
        IN /\ (docker.exited \/ timed_out) => o.kind = "result"
           /\ (o.kind = "result" /\ o.status = "COMPLETED"
                  /\ o.value.present /\ o.value.returncode = 0)
              <=> (docker.exited /\ docker.returncode = 0)
           /\ (o.kind = "result" /\ o.status = "FAILED"
                  /\ o.error = [kind |-> "str", v |-> docker.stderr])
              <=> (docker.exited /\ docker.returncode # 0)
           /\ (o.kind = "result" /\ o.status = "TIMEOUT") <=> timed_out

\* C21: a task constructed with a str as task_type holds the TaskType member
\* of exactly that name, under which the registry finds its executor; a str
\* that names no member raises ValueError and no task is made.
C21_StringTaskType ==
    (made.pc \in {"constructed", "raised", "looked_up"} /\ made.arg.kind = "str") =>
        LET named == {n \in 1..Len(TaskTypeNames) : TaskTypeNames[n] = made.arg.name}
        IN IF named = {}
           THEN made.pc = "raised" /\ made.raised = "ValueError"
                /\ made.task_type.kind = "none"
           ELSE /\ made.pc # "raised" /\ made.raised = None
                /\ made.task_type.kind = "TaskType"
                /\ made.task_type.name = made.arg.name
                /\ made.task_type.value \in named
                /\ made.pc = "looked_up" =>
                       made.executor = FullRegistry[made.task_type]

\* C21 witness: the str "DOCKER_RUN" became the member and its executor was
\* found.
C21_Witness ==
    /\ made.pc = "looked_up"
    /\ made.arg = [kind |-> "str", name |-> "DOCKER_RUN", value |-> 0]
    /\ made.task_type.kind = "TaskType"
    /\ made.executor = "TaskExecutor"

\* C22: once the group timeout has elapsed the call does not wait for the
\* outstanding items: it can end while they are still running.
C22_TimeoutDoesNotWait ==
    (fan.pc = "exit" /\ fan.timed_out) => ENABLED ExitRaises

\* C23: on every path of execute an nx item whose key exists is reported
\* skipped and leaves the stored value as it was, and an xx item whose key does
\* not exist creates nothing.
C23_ConditionalUpsert ==
    \A n \in 1..Len(redis.log) :
        LET l == redis.log[n] IN
        /\ (l.nx /\ l.before # [kind |-> "absent", v |-> <<>>]) =>
               (redis.results[n].action = "skipped" /\ l.after = l.before)
        /\ (l.xx /\ l.before = [kind |-> "absent", v |-> <<>>]) =>
               l.after = [kind |-> "absent", v |-> <<>>]

\* C24: when a pull or push has ended, every image was attempted and has its
\* own entry, failed for the invocations that raised, and the status is
\* Completed only if no invocation raised.
C24_ImagesIndependent ==
    sync.pc \in {"returned", "raised"} =>
        /\ Len(sync.invoked) = Len(sync.images)
        /\ Len(sync.entries) = Len(sync.images)
        /\ \A n \in 1..Len(sync.entries) :
               (sync.entries[n].status = "failed") <=> (sync.invoked[n] # "ok")
        /\ sync.status = "COMPLETED" =>
               \A n \in 1..Len(sync.invoked) : sync.invoked[n] = "ok"

\* How often pattern p is among the patterns of the task, and how often hit h
\* is in the result list.
TimesAsked(p) ==
    Cardinality({n \in 1..Len(search.patterns) : search.patterns[n].pattern = p})
TimesFound(h) ==
    Cardinality({n \in 1..Len(search.results) : search.results[n] = h})

\* C25: when every search succeeded and the call returned, the result list
\* holds exactly the hits of every pattern's partial list (each as often as its
\* pattern was asked for), the hits of one partial list stand together in
\* their original order, and the fan-out count is the number of patterns.
C25_FlattenedInOrder ==
    (/\ search.pc = "returned"
     /\ \A n \in 1..Len(search.patterns) : search.patterns[n].does = "ok") =>
        /\ search.status = "COMPLETED"
        /\ search.parallel_calls = Len(search.patterns)
        /\ \A n \in 1..Len(search.results) : TimesAsked(search.results[n].pattern) > 0
        /\ \A p \in {"p", "q"} :
               LET partial == IF p = "p"
                              THEN <<[pattern |-> "p", hit |-> 1], [pattern |-> "p", hit |-> 2]>>
                              ELSE <<[pattern |-> "q", hit |-> 1]>>
               IN /\ \A j \in 1..Len(partial) : TimesFound(partial[j]) = TimesAsked(p)
                  /\ \A n \in 1..Len(search.results) :
                         search.results[n] = partial[1] =>
                             /\ n + Len(partial) - 1 <= Len(search.results)
                             /\ \A j \in 1..Len(partial) :
                                    search.results[n + j - 1] = partial[j]

\* C25 witness: the search of the second pattern completed before that of the
\* first, and both partial lists are in the result list.
C25_Witness ==
    /\ search.pc = "returned"
    /\ Len(search.patterns) = 2
    /\ search.patterns[1] = [pattern |-> "p", does |-> "ok"]
    /\ search.patterns[2] = [pattern |-> "q", does |-> "ok"]
    /\ search.yielded = <<2, 1>>
    /\ Len(search.results) = 3

\* The places of the returned list whose Result was written to the results map
\* under task_id (a Cancelled Result is returned without being written).
WrittenFor(task_id) ==
    {n \in 1..Len(out) : out[n].task_id = task_id /\ out[n].status # "CANCELLED"}

\* C26: execute_batch returns one Result per task also when tasks share a
\* task_id, and the results map then holds for that id the Result written
\* last, whatever was written for it before.
C26_LastWriteWins ==
    pc = "returned" =>
        /\ Len(out) = Len(tasks)
        /\ \A id \in IDs :
               WrittenFor(id) # {} =>
                   /\ id \in DOMAIN results
                   /\ results[id] =
                          out[CHOOSE n \in WrittenFor(id) : \A m \in WrittenFor(id) : m <= n]

\* C26 witness: two tasks of one batch share an id, their Results differ, and
\* the map holds the later one.
C26_Witness ==
    /\ pc = "returned"
    /\ \E n, m \in 1..Len(out) :
           /\ n < m
           /\ out[n].task_id = out[m].task_id
           /\ out[n].status = "COMPLETED"
           /\ out[m].status = "FAILED"
           /\ results[out[m].task_id] = out[m]

\* C27: a call of generate_report leaves the results map, the executor
\* registry and the profile configuration as they were, and a call that
\* follows another with nothing in between returns the same report.
C27_ReportHasNoSideEffects ==
    [][pc' = "reported" =>
          /\ results' = results
          /\ executors' = executors
          /\ profile_config' = profile_config
          /\ (pc = "reported" => report' = report)]_vars

\* C27 witness: a report has been generated over a non-empty results map.
C27_Witness ==
    /\ pc = "reported"
    /\ Cardinality(DOMAIN results) = 2
    /\ report.total_tasks = 2

\* C28: once a configuration is cached, every later load call, whatever file
\* is at the path it names, returns the cached configuration, raises nothing
\* and leaves the cache as it is.
C28_FirstLoadWins ==
    [][cached_config # EmptyMap =>
          /\ cached_config' = cached_config
          /\ (loaded' # loaded =>
                 /\ loaded'.returned = cached_config
                 /\ loaded'.raised = None)]_vars

\* C28 witness: a load call made with a configuration cached and a file at the
\* path that is not YAML returned the cached configuration.
C28_Witness ==
    /\ loaded.called
    /\ loaded.cache_before # EmptyMap
    /\ loaded.source.exists
    /\ ~loaded.source.parses
    /\ loaded.returned = loaded.cache_before
    /\ cached_config = loaded.cache_before

\* The ids of the tasks of the batch under way.
BatchIDs == {tasks[n].task_id : n \in 1..Len(tasks)}

\* C29: no step removes an entry of the results map, and a dependent task all
\* of whose dependencies were recorded Completed by an earlier execute_batch
\* call, none of them an id of the current batch, is dispatched when its turn
\* comes.
C29_ResultsOutliveBatch ==
    [][/\ DOMAIN results \subseteq DOMAIN results'
       /\ (/\ pc = "dep_loop"
           /\ pc' # pc \/ k' # k
           /\ k <= Len(dependent_tasks)
           /\ \A n \in 1..Len(dependent_tasks[k].dependencies) :
                  LET dep == dependent_tasks[k].dependencies[n]
                  IN /\ dep \notin BatchIDs
                     /\ dep \in DOMAIN results
                     /\ results[dep].status = "COMPLETED")
          => (pc' = "dep_exec" /\ out' = out)]_vars

\* C29 witness: in a later batch that holds only the dependent task "b", "b" is
\* running on the strength of the Completed Result an earlier batch recorded
\* for "a".
C29_Witness ==
    /\ later_batches = 1
    /\ pc = "dep_exec"
    /\ \A n \in 1..Len(tasks) : tasks[n].task_id = "b"
    /\ "a" \in DOMAIN results
    /\ results["a"].status = "COMPLETED"

\* C30: a submit call for a task whose kind has no executor or whose payload
\* its executor rejects raises ValueError and leaves the queue as it is; any
\* other appends exactly that task and returns its task_id; neither touches the
\* registry or the results map, runs an executor or adds a Result; and no step
\* of execute_batch takes a task off the queue.
C30_SubmitOnlyEnqueues ==
    [][/\ Len(task_queue') >= Len(task_queue)
       /\ SubSeq(task_queue', 1, Len(task_queue)) = task_queue
       /\ (submitted' # submitted \/ task_queue' # task_queue) =>
              LET task == submitted'.task IN
              /\ executors' = executors
              /\ results' = results
              /\ exec_log' = exec_log
              /\ out' = out
              /\ IF executors[task.task_type] = None \/ task.payload # "valid"
                 THEN /\ submitted'.raised = "ValueError"
                      /\ task_queue' = task_queue
                 ELSE /\ submitted'.raised = None
                      /\ submitted'.returned = task.task_id
                      /\ task_queue' = task_queue \o <<task>>]_vars

\* C30 witness: a batch has returned, the queue holds the one task a submit
\* call was accepted for, and the last submit call was refused.
C30_Witness ==
    /\ pc = "returned"
    /\ Len(tasks) > 0
    /\ Len(task_queue) = 1
    /\ submitted.called
    /\ submitted.raised = "ValueError"

====
